---- MODULE Spec2Model ----
(***************************************************************************)
(* Clarity.fm manager: the booking state machine of ClarityClient          *)
(* (scripts/clarity-client.ts), the session record it keeps on disk, the   *)
(* resident browsers it launches or reconnects to, and the BudgetTracker   *)
(* ledger (scripts/budget-tracker.ts), driven by the commands of           *)
(* scripts/cli.ts.  Every command runs in a short-lived process of its     *)
(* own, so the client's in-memory fields start empty in every operation.   *)
(* Strings that the code converts are sequences of one-character strings;  *)
(* money is counted in cents.                                              *)
(***************************************************************************)
EXTENDS Integers, Sequences, FiniteSets, TLC

VARIABLES
    session,      \* content of SESSION_PATH: NoSession or a SessionInfo record
    resident,     \* the browser at the recorded wsEndpoint: "dead", "open"
                  \* (running with a page) or "noPage" (running without a tab)
    orphans,      \* number of running browsers that no record points to
    page,         \* what the page of the browser in use (the recorded one) shows
    hasWsEndpoint,\* whether a launched Browser object answers wsEndpoint()
    config,       \* config.json: [monthlyBudget]
    budget,       \* budget.json: [monthlyCap, entries]
    pc,           \* position inside the running command ("idle" between commands)
    call,         \* locals and bookkeeping of the running / last command
    result,       \* what the last finished command returned
    hist          \* what happened so far: [submitOk, afterPayment, afterSuccess]

vars == <<session, resident, orphans, page, hasWsEndpoint, config, budget, pc, call, result, hist>>

----------------------------------------------------------------------------
(* Bounds of the model *)

MaxOrphans == 2       \* running browsers that no record points to
MaxSubmitOk == 1      \* successful submissions counted in hist.submitOk
MaxThrows == 1        \* exceptions raised inside one selector loop
MaxCards == 3         \* cards of a browse page whose rates vary
LongPageLen == 12     \* cards of the long browse page
MaxEnrich == 4        \* largest --enrich
MaxLedger == 2        \* entries one BudgetTracker holds

(* Program constants *)

NumBookingSelectors == 10   \* bookingButtonSelectors
NumSubmitSelectors == 8     \* submitSelectors
DefaultDuration == 30       \* options.duration || 30

----------------------------------------------------------------------------
(* Values *)

NoSession == [none |-> TRUE]
\* a session file whose content JSON.parse rejects: getSession() reads it as
\* null, so no flag of it is set
Corrupt == [loggedIn |-> FALSE, bookingFilled |-> FALSE, currentExpert |-> <<>>,
            unparseable |-> TRUE]
NoExpert == <<>>
NaN == -1

\* what the user may type for --expert
ExpertInputs ==
    { <<"a">>,
      <<"@", "b">>,
      <<"h","t","t","p","s",":","/","/","c",".","f","m","/","b","/","s","e","o","?","x">>,
      <<"h","t","t","p","x">> }

\* what the profile page may show as the per-minute rate (result of the
\* /\$[\d.]+\/min/ match, "" when the page shows none)
ListedRate == <<"$","2",".","5","0","/","m","i","n">>
RateTexts == { <<>>, ListedRate }

Durations == { 0, 15, 120 }          \* 0: --duration not given
BudgetCaps == { 0, 10000 }           \* cents; 0: no cap

BlankPage == [kind |-> "blank", expert |-> NoExpert]

\* the <strong> text of a card: none, "$5", "$15.00"
CardTexts == { <<>>, <<"$","5">>, <<"$","1","5",".","0","0">> }
PageOf(k, e) == [kind |-> k, expert |-> e]

----------------------------------------------------------------------------
(* Pure helpers of ClarityClient *)

Digits == { "0","1","2","3","4","5","6","7","8","9" }

DigitVal(c) ==
    CASE c = "0" -> 0 [] c = "1" -> 1 [] c = "2" -> 2 [] c = "3" -> 3
      [] c = "4" -> 4 [] c = "5" -> 5 [] c = "6" -> 6 [] c = "7" -> 7
      [] c = "8" -> 8 [] c = "9" -> 9

StartsWith(s, p) == Len(s) >= Len(p) /\ SubSeq(s, 1, Len(p)) = p

Drop(s, n) == SubSeq(s, n + 1, Len(s))

\* index of the first position >= i of s holding a character of set cs, or
\* Len(s) + 1 when there is none
RECURSIVE FirstIn(_, _, _)
FirstIn(s, cs, i) ==
    IF i > Len(s) THEN Len(s) + 1
    ELSE IF s[i] \in cs THEN i
    ELSE FirstIn(s, cs, i + 1)

\* index of the first position >= i of s holding a character outside cs
RECURSIVE FirstNotIn(_, _, _)
FirstNotIn(s, cs, i) ==
    IF i > Len(s) THEN Len(s) + 1
    ELSE IF s[i] \notin cs THEN i
    ELSE FirstNotIn(s, cs, i + 1)

\* index at which "://" starts in s, or 0
RECURSIVE SchemeSep(_, _)
SchemeSep(s, i) ==
    IF i + 2 > Len(s) THEN 0
    ELSE IF SubSeq(s, i, i + 2) = <<":", "/", "/">> THEN i
    ELSE SchemeSep(s, i + 1)

\* new URL(input) throws for a string without scheme separator
UrlThrows(input) == SchemeSep(input, 1) = 0

\* new URL(input).pathname: what follows the host, up to "?" or "#"
Pathname(input) ==
    LET rest == Drop(input, SchemeSep(input, 1) + 2)
        slash == FirstIn(rest, {"/"}, 1)
        tail == Drop(rest, slash - 1)
        stop == FirstIn(tail, {"?", "#"}, 1)
    IN  IF slash > Len(rest) THEN <<"/">> ELSE SubSeq(tail, 1, stop - 1)

normalizeUsername(expertInput) ==
    IF StartsWith(expertInput, <<"h","t","t","p">>)
    THEN LET p == Pathname(expertInput)
             q == IF StartsWith(p, <<"/">>) THEN Drop(p, 1) ELSE p
         IN  SubSeq(q, 1, FirstIn(q, {"/"}, 1) - 1)
    ELSE IF StartsWith(expertInput, <<"@">>) THEN Drop(expertInput, 1)
    ELSE expertInput

\* value of a run of digits, read left to right
RECURSIVE DigitsVal(_, _)
DigitsVal(s, acc) ==
    IF s = <<>> THEN acc ELSE DigitsVal(Tail(s), 10 * acc + DigitVal(Head(s)))

\* parseFloat of a run of digits and dots, in cents: the integer part, then
\* at most one "." with its digits (two of them kept); NaN without any digit
ParseFloatCents(run) ==
    LET intEnd == FirstNotIn(run, Digits, 1)
        int == SubSeq(run, 1, intEnd - 1)
        hasDot == intEnd <= Len(run) /\ run[intEnd] = "."
        fracEnd == IF hasDot THEN FirstNotIn(run, Digits, intEnd + 1) ELSE intEnd
        frac == IF hasDot THEN SubSeq(run, intEnd + 1, fracEnd - 1) ELSE <<>>
        f1 == IF Len(frac) >= 1 THEN DigitVal(frac[1]) ELSE 0
        f2 == IF Len(frac) >= 2 THEN DigitVal(frac[2]) ELSE 0
    IN  IF int = <<>> /\ frac = <<>> THEN NaN
        ELSE 100 * DigitsVal(int, 0) + 10 * f1 + f2

\* rateText.match(/[\d.]+/) then parseFloat, 0 without a match
parseRate(rateText) ==
    LET from == FirstIn(rateText, Digits \cup {"."}, 1)
        to == FirstNotIn(rateText, Digits \cup {"."}, from)
    IN  IF from > Len(rateText) THEN 0
        ELSE ParseFloatCents(SubSeq(rateText, from, to - 1))

\* variant: the cost is computed for the default duration
Times_DefaultDuration(rate, duration) == IF rate = NaN THEN NaN ELSE rate * DefaultDuration

\* costPerMinute * duration, NaN propagating
Times(rate, duration) == IF rate = NaN THEN NaN ELSE rate * duration

\* a > b in JavaScript numbers: false as soon as one side is NaN
Greater(a, b) == a # NaN /\ b # NaN /\ a > b

----------------------------------------------------------------------------
(* Expert records: extraction, value score, ordering.  Rates are in cents,  *)
(* ratings in tenths of a star, value scores in hundredths.                 *)

Null == -2                   \* null / undefined
DefaultLimit == 10           \* options.limit || 10
MaxLimit == 20               \* Math.min(..., 20)
MAX_CONCURRENT == 3          \* tabs of one enrichment batch

Min(a, b) == IF a <= b THEN a ELSE b

\* a value used as a condition: undefined and 0 are falsy
Truthy(x) == x # Null /\ x # 0 /\ x # NaN

\* Math.round(n / d) for n >= 0, d > 0: halves go up
RoundDiv(n, d) == (2 * n + d) \div (2 * d)

\* variant: a missing rating or review count counts as zero
calculateValueScore_NullAsZero(reviewCount, rating, rate) ==
    LET rc == IF reviewCount = Null THEN 0 ELSE reviewCount
        rt == IF rating = Null THEN 0 ELSE rating
    IN  IF rate = NaN THEN NaN
        ELSE IF rate <= 0 THEN 0
        ELSE RoundDiv(rc * rt * 1000, rate)

\* variant: an expert who charges nothing has no score
calculateValueScore_FreeIsNull(reviewCount, rating, rate) ==
    IF rating = Null \/ reviewCount = Null THEN Null
    ELSE IF rate = NaN THEN NaN
    ELSE IF rate <= 0 THEN Null
    ELSE RoundDiv(reviewCount * rating * 1000, rate)

\* calculateValueScore(reviewCount, rating, rate):
\* Math.round(((reviewCount * rating) / rate) * 100) / 100
calculateValueScore(reviewCount, rating, rate) ==
    IF rating = Null \/ reviewCount = Null THEN Null
    ELSE IF rate = NaN THEN NaN
    ELSE IF rate <= 0 THEN 0
    ELSE RoundDiv(reviewCount * rating * 1000, rate)

\* sText.replace(/[^0-9.]/g, "")
StripNonNumeric(s) == SelectSeq(s, LAMBDA c : c \in Digits \cup {"."})

\* the rate of a card, from its <strong> text: parseFloat(...) || 0 for a
\* text that starts with "$", else 0
cardRate(strong) ==
    IF StartsWith(strong, <<"$">>)
    THEN LET v == ParseFloatCents(StripNonNumeric(strong))
         IN  IF v = NaN THEN 0 ELSE v
    ELSE 0

\* the two `continue` of the card loop, negated
passesRateFilter(rateNum, minRate, maxRate) ==
    /\ ~(Truthy(minRate) /\ rateNum < minRate)
    /\ ~(Truthy(maxRate) /\ rateNum > maxRate)

\* variant: without --limit only the cap applies
searchLimit_NoDefault(limit) == IF Truthy(limit) THEN Min(limit, MaxLimit) ELSE MaxLimit

\* Math.min(options.limit || 10, 20)
searchLimit(limit) == Min(IF Truthy(limit) THEN limit ELSE DefaultLimit, MaxLimit)

\* valueScore recomputed from the record's own fields
WithValueScore(e) ==
    [e EXCEPT !.valueScore = calculateValueScore(e.reviewCount, e.rating, e.rate)]

\* the record pushed for a card of the browse page
CardRecord(card) ==
    [username |-> card.username, rate |-> cardRate(card.strong),
     rating |-> Null, reviewCount |-> Null, valueScore |-> Null]

\* the card loop of searchExperts: the first maxResults cards of the page,
\* of which those outside the rate range are skipped
extractExperts(cards, maxResults, minRate, maxRate) ==
    LET first == SubSeq(cards, 1, Min(maxResults, Len(cards)))
        kept == SelectSeq(first, LAMBDA c :
                    passesRateFilter(cardRate(c.strong), minRate, maxRate))
    IN  [i \in 1..Len(kept) |-> WithValueScore(CardRecord(kept[i]))]

\* what the profile scrape of enrichProfiles returns for a page that shows
\* the rating marker pg.rating and the review count pg.reviews (Null: none)
scrapeProfile(pg) ==
    [rating |-> IF pg.rating # Null /\ pg.rating > 0 /\ pg.rating <= 50
                THEN pg.rating ELSE Null,
     reviewCount |-> pg.reviews]

\* variant: a failed fetch blanks the record's figures to zero
applyFetch_FailureZeroes(e, r) ==
    IF r.status = "fulfilled"
    THEN WithValueScore([e EXCEPT !.rating = r.value.rating,
                                  !.reviewCount = r.value.reviewCount])
    ELSE [e EXCEPT !.rating = 0, !.reviewCount = 0, !.valueScore = 0]

\* results.forEach of enrichProfiles, for one settled fetch
applyFetch(e, r) ==
    IF r.status = "fulfilled"
    THEN WithValueScore([e EXCEPT !.rating = r.value.rating,
                                  !.reviewCount = r.value.reviewCount])
    ELSE e

\* variant: the lower score first
bySearchOrder_Ascending(a, b) ==
    IF a.valueScore # Null /\ b.valueScore # Null THEN a.valueScore - b.valueScore
    ELSE IF a.valueScore # Null THEN -1
    ELSE IF b.valueScore # Null THEN 1
    ELSE 0

\* the comparator of the re-sort after enrichment
bySearchOrder(a, b) ==
    IF a.valueScore # Null /\ b.valueScore # Null THEN b.valueScore - a.valueScore
    ELSE IF a.valueScore # Null THEN -1
    ELSE IF b.valueScore # Null THEN 1
    ELSE 0

\* variant: the comparator puts the lowest score first
byBestValue_LowestFirst(a, b) ==
    (IF a.valueScore = Null THEN -100 ELSE a.valueScore)
        - (IF b.valueScore = Null THEN -100 ELSE b.valueScore)

\* the comparator of compareExperts: (b.valueScore ?? -1) - (a.valueScore ?? -1),
\* in hundredths
byBestValue(a, b) ==
    (IF b.valueScore = Null THEN -100 ELSE b.valueScore)
        - (IF a.valueScore = Null THEN -100 ELSE a.valueScore)

\* Array.prototype.sort is stable: x goes in front of the first element that
\* the comparator puts after it.  kind: which comparator
Before(kind, a, b) ==
    IF kind = "search" THEN bySearchOrder(a, b) ELSE byBestValue(a, b)

RECURSIVE InsertSorted(_, _, _)
InsertSorted(kind, x, sorted) ==
    IF sorted = <<>> THEN <<x>>
    ELSE IF Before(kind, Head(sorted), x) > 0 THEN <<x>> \o sorted
    ELSE <<Head(sorted)>> \o InsertSorted(kind, x, Tail(sorted))

RECURSIVE SortBy(_, _, _)
SortBy(kind, todo, sorted) ==
    IF todo = <<>> THEN sorted
    ELSE SortBy(kind, Tail(todo), InsertSorted(kind, Head(todo), sorted))

\* the record viewProfile extracts from a profile page: a missing rating
\* marker or review count gives 0.  pg.rateText is the "$X/min" text the
\* page shows (empty: none, rate 0); on such a text the number viewProfile
\* parses is the one parseRate parses
ProfileRecord(username, pg) ==
    LET raw == [username |-> username,
                rate |-> parseRate(pg.rateText),
                rating |-> IF pg.rating # Null /\ pg.rating > 0 /\ pg.rating <= 50
                           THEN pg.rating ELSE 0,
                reviewCount |-> IF pg.reviews = Null THEN 0 ELSE pg.reviews,
                valueScore |-> 0]
    IN  WithValueScore(raw)

----------------------------------------------------------------------------
(* The session record on disk *)

\* the record ensureBrowser writes after a launch; its wsEndpoint is the
\* browser whose state is `resident`
NewSession ==
    [loggedIn |-> FALSE, bookingFilled |-> FALSE, currentExpert |-> NoExpert]

\* variant: an update merges into the record and never takes a flag back
updateSession_Sticky(s, updates) ==
    IF s = NoSession THEN s
    ELSE [f \in DOMAIN s |->
            IF f \in DOMAIN updates /\ (f = "currentExpert" \/ updates[f])
            THEN updates[f] ELSE s[f]]

\* variant: the file is overwritten with the updates alone
updateSession_Replaces(s, updates) ==
    IF s = NoSession THEN s
    ELSE [f \in DOMAIN s |-> IF f \in DOMAIN updates THEN updates[f] ELSE NewSession[f]]

\* updateSession(updates): Object.assign on the record, only when the file exists
updateSession(s, updates) ==
    IF s = NoSession THEN s
    ELSE [f \in DOMAIN s |-> IF f \in DOMAIN updates THEN updates[f] ELSE s[f]]

\* JSON.parse(readFileSync(SESSION_PATH)) in updateSession, outside any try
updateSessionThrows(s) == s = Corrupt

----------------------------------------------------------------------------
(* Browsers *)

\* variant: the record is written anew after a reconnect as well
EnsureBrowser_AlwaysRewrites(s, r, n, pg, ws) ==
    LET reuse == s # NoSession /\ r = "open"
        connectThrows == s # NoSession /\ r = "dead"
        s1 == IF connectThrows THEN NoSession ELSE s
        n1 == IF ws THEN (IF s1 # NoSession THEN n + 1 ELSE n) ELSE n + 1
    IN  IF reuse
        THEN [session |-> NewSession, resident |-> r, orphans |-> n, page |-> pg,
              launched |-> FALSE, ok |-> TRUE]
        ELSE IF n1 > MaxOrphans
        THEN [session |-> s1, resident |-> r, orphans |-> n, page |-> pg,
              launched |-> FALSE, ok |-> FALSE]
        ELSE [session |-> IF ws THEN NewSession ELSE s1,
              resident |-> IF ws THEN "open" ELSE r,
              orphans |-> n1, page |-> BlankPage, launched |-> TRUE, ok |-> TRUE]

\* variant: a record that cannot be reconnected is kept, and nothing is
\* launched
EnsureBrowser_KeepsStaleRecord(s, r, n, pg, ws) ==
    IF s # NoSession
    THEN [session |-> s, resident |-> r, orphans |-> n, page |-> pg,
          launched |-> FALSE, ok |-> TRUE]
    ELSE [session |-> IF ws THEN NewSession ELSE NoSession,
          resident |-> IF ws THEN "open" ELSE r,
          orphans |-> IF ws THEN n ELSE n + 1,
          page |-> BlankPage, launched |-> TRUE,
          ok |-> (IF ws THEN n ELSE n + 1) <= MaxOrphans]

\* ensureBrowser() on a session file that JSON.parse rejects: the catch
\* deletes the file and a launch follows.  n: running browsers without a
\* record, the one of the deleted file among them
LaunchUnrecorded(n, pg, ws) ==
    IF (IF ws THEN n ELSE n + 1) > MaxOrphans
    THEN [session |-> NoSession, resident |-> "dead", orphans |-> n, page |-> pg,
          launched |-> FALSE, ok |-> FALSE]
    ELSE [session |-> IF ws THEN NewSession ELSE NoSession,
          resident |-> IF ws THEN "open" ELSE "dead",
          orphans |-> IF ws THEN n ELSE n + 1,
          page |-> BlankPage, launched |-> TRUE, ok |-> TRUE]

\* ensureBrowser(): reconnect to the recorded endpoint and reuse its first
\* page, else launch.  r: state of the recorded browser, n: running browsers
\* without a record, pg: what the recorded browser's page shows, ws: the
\* launched Browser answers wsEndpoint().
\* Result: the record, the browsers and the page in use afterwards, whether a
\* launch happened, and ok = FALSE when the launch would exceed MaxOrphans.
EnsureBrowser(s, r, n, pg, ws) ==
    IF s = Corrupt
    THEN LaunchUnrecorded(IF r # "dead" THEN n + 1 ELSE n, pg, ws)
    ELSE
        LET reuse == s # NoSession /\ r = "open"
            connectThrows == s # NoSession /\ r = "dead"
            s1 == IF connectThrows THEN NoSession ELSE s
            \* a recorded launch leaves a still running, tabless browser behind;
            \* an unrecorded one is itself without a record
            n1 == IF ws THEN (IF s1 # NoSession THEN n + 1 ELSE n) ELSE n + 1
        IN  IF reuse
            THEN [session |-> s, resident |-> r, orphans |-> n, page |-> pg,
                  launched |-> FALSE, ok |-> TRUE]
            ELSE IF n1 > MaxOrphans
            THEN [session |-> s1, resident |-> r, orphans |-> n, page |-> pg,
                  launched |-> FALSE, ok |-> FALSE]
            ELSE [session |-> IF ws THEN NewSession ELSE s1,
                  resident |-> IF ws THEN "open" ELSE r,
                  orphans |-> n1, page |-> BlankPage, launched |-> TRUE, ok |-> TRUE]

\* variant: whenever the launch throws the record is gone
LaunchThrows_DropsRecord(s, r, n, pg) ==
    LET lost == IF s = Corrupt /\ r # "dead" THEN 1 ELSE 0
    IN  [session |-> NoSession,
         resident |-> IF lost = 1 THEN "dead" ELSE r,
         orphans |-> n + lost, page |-> pg,
         launched |-> FALSE, ok |-> n + lost <= MaxOrphans]

\* ensureBrowser() when chromium.launch (or newContext, newPage) throws: what
\* the reconnect attempt before it has done stays done
LaunchThrows(s, r, n, pg) ==
    LET connectThrows == s # NoSession /\ (s = Corrupt \/ r = "dead")
        lost == IF s = Corrupt /\ r # "dead" THEN 1 ELSE 0
    IN  [session |-> IF connectThrows THEN NoSession ELSE s,
         resident |-> IF lost = 1 THEN "dead" ELSE r,
         orphans |-> n + lost, page |-> pg,
         launched |-> FALSE, ok |-> n + lost <= MaxOrphans]

\* variant: a successful login writes the record anew
EnsureLoggedIn_LoginRewritesRecord(s, r, n, pg, ws, dash, login) ==
    LET w1 == EnsureBrowser(s, r, n, pg, ws)
        logged == w1.session # NoSession /\ w1.session.loggedIn
        w2 == EnsureBrowser(w1.session, w1.resident, w1.orphans, w1.page, ws)
        none == [threw |-> FALSE, logins |-> 0]
    IN  IF ~w1.ok THEN w1 @@ none
        ELSE IF logged /\ dash = "ok"
        THEN [w1 EXCEPT !.page = PageOf("dashboard", NoExpert)] @@ none
        ELSE IF ~w2.ok THEN w2 @@ none
        ELSE IF login = "ok"
        THEN [w2 EXCEPT !.session = IF w2.session = NoSession THEN NoSession
                                    ELSE [NewSession EXCEPT !.loggedIn = TRUE],
                        !.page = PageOf("dashboard", NoExpert),
                        !.launched = w1.launched \/ w2.launched]
             @@ [threw |-> FALSE, logins |-> 1]
        ELSE [w2 EXCEPT !.page = PageOf("login", NoExpert),
                        !.launched = w1.launched \/ w2.launched]
             @@ [threw |-> TRUE, logins |-> 1]

\* variant: a login that fails is attempted a second time
EnsureLoggedIn_RetriesLogin(s, r, n, pg, ws, dash, login) ==
    LET w1 == EnsureBrowser(s, r, n, pg, ws)
        logged == w1.session # NoSession /\ w1.session.loggedIn
        w2 == EnsureBrowser(w1.session, w1.resident, w1.orphans, w1.page, ws)
        none == [threw |-> FALSE, logins |-> 0]
    IN  IF ~w1.ok THEN w1 @@ none
        ELSE IF logged /\ dash = "ok"
        THEN [w1 EXCEPT !.page = PageOf("dashboard", NoExpert)] @@ none
        ELSE IF ~w2.ok THEN w2 @@ none
        ELSE IF login = "ok"
        THEN [w2 EXCEPT !.session = updateSession(w2.session, [loggedIn |-> TRUE]),
                        !.page = PageOf("dashboard", NoExpert),
                        !.launched = w1.launched \/ w2.launched]
             @@ [threw |-> FALSE, logins |-> 1]
        ELSE [w2 EXCEPT !.page = PageOf("login", NoExpert),
                        !.launched = w1.launched \/ w2.launched]
             @@ [threw |-> TRUE, logins |-> 2]

\* ensureLoggedIn() followed by login() when needed.
\* dash: what the dashboard check of a logged-in session does: "ok", or
\*       "fails" (it throws or ends on the login page: both fall through
\*       to login(), which navigates anew);
\* login: "ok" or "fail" (login() throws).
EnsureLoggedIn(s, r, n, pg, ws, dash, login) ==
    LET w1 == EnsureBrowser(s, r, n, pg, ws)
        logged == w1.session # NoSession /\ w1.session.loggedIn
        w2 == EnsureBrowser(w1.session, w1.resident, w1.orphans, w1.page, ws)
        none == [threw |-> FALSE, logins |-> 0]
    IN  IF ~w1.ok THEN w1 @@ none
        ELSE IF logged /\ dash = "ok"
        THEN [w1 EXCEPT !.page = PageOf("dashboard", NoExpert)] @@ none
        ELSE IF ~w2.ok THEN w2 @@ none
        ELSE IF login = "ok"
        THEN [w2 EXCEPT !.session = updateSession(w2.session, [loggedIn |-> TRUE]),
                        !.page = PageOf("dashboard", NoExpert),
                        !.launched = w1.launched \/ w2.launched]
             @@ [threw |-> FALSE, logins |-> 1]
        ELSE [w2 EXCEPT !.page = PageOf("login", NoExpert),
                        !.launched = w1.launched \/ w2.launched]
             @@ [threw |-> TRUE, logins |-> 1]

----------------------------------------------------------------------------
(* BudgetTracker *)

RECURSIVE SumTotals(_)
SumTotals(entries) ==
    IF entries = <<>> THEN 0 ELSE Head(entries).estimatedTotal + SumTotals(Tail(entries))

getMonthlySpend(b) == SumTotals(b.entries)

isOverBudget(b, additionalCost) ==
    IF b.monthlyCap <= 0 THEN FALSE
    ELSE Greater(IF additionalCost = NaN THEN NaN ELSE getMonthlySpend(b) + additionalCost,
                 b.monthlyCap)

addEntry(b, expert, duration, costPerMinute) ==
    [b EXCEPT !.entries = Append(@, [expert |-> expert, duration |-> duration,
                                     costPerMinute |-> costPerMinute,
                                     estimatedTotal |-> Times(costPerMinute, duration)])]

setBudget(b, monthly) == [b EXCEPT !.monthlyCap = monthly]

----------------------------------------------------------------------------
(* Bookkeeping of a command *)

\* locals of a command at its start
CallInit(op) ==
    [op |-> op,
     pre |-> session,              \* the record when the command started
     user |-> NoExpert,            \* normalized --expert
     sel |-> 0,                    \* index in the selector list being tried
     clicks |-> 0,                 \* click() calls on booking / submit controls
     offForm |-> FALSE,            \* a submit control was clicked on a page that is
                                   \* not the booking form of the record's expert
     touched |-> FALSE,            \* some browser interaction took place
     launched |-> FALSE,           \* a fresh browser was launched
     logins |-> 0,                 \* runs of login()
     threw |-> FALSE,              \* an exception was raised in submitBooking's try block
     throws |-> 0,                 \* exceptions raised in the selector loop
     clickAfterThrow |-> FALSE]    \* a submit control was clicked after one

Res(kind, msg) ==
    [kind |-> kind, msg |-> msg, screenshot |-> FALSE, noRetry |-> FALSE,
     requiresManualPayment |-> FALSE, budgetWarning |-> FALSE,
     estimatedCost |-> 0, costPerMinute |-> 0, duration |-> 0, expert |-> NoExpert]

Ok(msg) == [Res("success", msg) EXCEPT !.screenshot = TRUE]
Err(msg, shot) == [Res("error", msg) EXCEPT !.screenshot = shot]
Thrown(msg) == Res("exception", msg)

----------------------------------------------------------------------------
Init ==
    /\ session = NoSession
    /\ resident = "dead"
    /\ orphans = 0
    /\ page = BlankPage
    /\ hasWsEndpoint \in BOOLEAN
    /\ config = [monthlyBudget |-> 0]
    /\ budget = [monthlyCap |-> 0, entries |-> <<>>]
    /\ pc = "idle"
    /\ hist = [submitOk |-> 0, afterPayment |-> FALSE, afterSuccess |-> FALSE]
    /\ call = [op |-> "none", pre |-> NoSession, user |-> NoExpert,
               sel |-> 0, clicks |-> 0, offForm |-> FALSE, touched |-> FALSE,
               launched |-> FALSE, logins |-> 0, threw |-> FALSE, throws |-> 0,
               clickAfterThrow |-> FALSE]
    /\ result = Res("none", "none")

----------------------------------------------------------------------------
(* fillBooking *)

\* the budget check of fillBooking: config.clarity.monthlyBudget against the
\* estimated cost of this booking alone
BudgetWarning(cfg, estimatedCost) ==
    /\ cfg.monthlyBudget # 0
    /\ Greater(estimatedCost, 0)
    /\ Greater(estimatedCost, cfg.monthlyBudget)

\* ensureLoggedIn, normalizeUsername, navigation to the profile
FillStart(input, dash, login, nav) ==
    LET w == EnsureLoggedIn(session, resident, orphans, page, hasWsEndpoint, dash, login)
        username == normalizeUsername(input)
        c == [CallInit("fillBooking") EXCEPT
                 !.touched = TRUE, !.launched = w.launched, !.logins = w.logins]
        urlThrows == StartsWith(input, <<"h","t","t","p">>) /\ UrlThrows(input)
    IN  /\ pc = "idle"
        /\ w.ok
        /\ session' = w.session
        /\ resident' = w.resident
        /\ orphans' = w.orphans
        /\ hist' = [hist EXCEPT !.afterPayment = FALSE]
        /\ UNCHANGED <<hasWsEndpoint, config, budget>>
        /\ IF w.threw
           THEN /\ page' = w.page
                /\ call' = c
                /\ result' = Thrown("loginFailed")
                /\ pc' = "idle"
           ELSE IF urlThrows
           THEN /\ page' = w.page
                /\ call' = c
                /\ result' = Thrown("invalidUrl")
                /\ pc' = "idle"
           ELSE IF nav = "throws"
           THEN /\ page' = w.page
                /\ call' = [c EXCEPT !.user = username]
                /\ result' = Thrown("navigation")
                /\ pc' = "idle"
           ELSE /\ page' = PageOf("profile", username)
                /\ call' = [c EXCEPT !.user = username, !.sel = 1]
                /\ result' = Res("none", "running")
                /\ pc' = "fillSelectors"

\* one turn of the loop over bookingButtonSelectors; o: the control is absent
\* (or looking it up throws), its click throws, or it is clicked
FillTrySelector(o) ==
    LET last == call.sel + 1 > NumBookingSelectors
    IN  /\ pc = "fillSelectors"
        /\ UNCHANGED <<session, resident, orphans, hasWsEndpoint, config, budget,
                       result, hist>>
        /\ CASE o = "absent" ->
                  /\ call' = [call EXCEPT !.sel = IF last THEN 0 ELSE @ + 1]
                  /\ pc' = IF last THEN "fillNoButton" ELSE "fillSelectors"
                  /\ UNCHANGED page
             [] o = "clickThrows" ->
                  /\ call.throws < MaxThrows
                  /\ call' = [call EXCEPT !.sel = IF last THEN 0 ELSE @ + 1,
                                          !.clicks = @ + 1, !.throws = @ + 1]
                  /\ pc' = IF last THEN "fillNoButton" ELSE "fillSelectors"
                  /\ UNCHANGED page
             [] o = "clicked" ->
                  /\ call' = [call EXCEPT !.sel = 0, !.clicks = @ + 1]
                  /\ page' = PageOf("form", call.user)
                  /\ pc' = "fillForm"

\* no booking control was found: screenshot and error
FillNoButton(shot) ==
    /\ pc = "fillNoButton"
    /\ pc' = "idle"
    /\ result' = IF shot = "ok" THEN Err("noBookingButton", TRUE) ELSE Thrown("screenshot")
    /\ UNCHANGED <<session, resident, orphans, page, hasWsEndpoint, config, budget,
                   call, hist>>

\* variant: the filled booking is entered in the ledger right away
FillForm_AddsEntry(duration, rateText, shot) ==
    LET dur == IF duration = 0 THEN DefaultDuration ELSE duration
        costPerMinute == parseRate(rateText)
        estimatedCost == Times(costPerMinute, dur)
    IN  /\ pc = "fillForm"
        /\ pc' = "idle"
        /\ UNCHANGED <<resident, orphans, page, hasWsEndpoint, config, call>>
        /\ IF shot = "ok"
           THEN /\ session' = updateSession(session,
                                 [bookingFilled |-> TRUE, currentExpert |-> call.user])
                /\ budget' = addEntry(budget, call.user, dur, costPerMinute)
                /\ result' = [Ok("formFilled") EXCEPT
                                 !.expert = call.user,
                                 !.estimatedCost = estimatedCost,
                                 !.costPerMinute = costPerMinute,
                                 !.duration = dur,
                                 !.budgetWarning = BudgetWarning(config, estimatedCost)]
                /\ hist' = [hist EXCEPT !.afterSuccess = FALSE]
           ELSE /\ result' = Thrown("screenshot")
                /\ UNCHANGED <<session, budget, hist>>

\* the form is open: best-effort field fills, screenshot, updateSession,
\* budget check.  duration: --duration; rateText: the rate the profile page
\* showed before the booking control was clicked (nothing in between
\* depends on it).
FillForm(duration, rateText, shot) ==
    LET dur == IF duration = 0 THEN DefaultDuration ELSE duration
        costPerMinute == parseRate(rateText)
        estimatedCost == Times(costPerMinute, dur)
    IN  /\ pc = "fillForm"
        /\ pc' = "idle"
        /\ UNCHANGED <<resident, orphans, page, hasWsEndpoint, config, budget, call>>
        /\ IF shot = "ok" /\ ~updateSessionThrows(session)
           THEN /\ session' = updateSession(session,
                                 [bookingFilled |-> TRUE, currentExpert |-> call.user])
                /\ result' = [Ok("formFilled") EXCEPT
                                 !.expert = call.user,
                                 !.estimatedCost = estimatedCost,
                                 !.costPerMinute = costPerMinute,
                                 !.duration = dur,
                                 !.budgetWarning = BudgetWarning(config, estimatedCost)]
                /\ hist' = [hist EXCEPT !.afterSuccess = FALSE]
           ELSE /\ result' = Thrown(IF shot = "ok" THEN "sessionParse" ELSE "screenshot")
                /\ UNCHANGED <<session, hist>>

----------------------------------------------------------------------------
(* submitBooking *)

SubmitRefused_RecordOnly(s) == s = NoSession

\* the state check of submitBooking: !session?.bookingFilled
SubmitRefused(s) == s = NoSession \/ ~s.bookingFilled

\* state check, then ensureBrowser
SubmitStart ==
    LET w == EnsureBrowser(session, resident, orphans, page, hasWsEndpoint)
    IN  /\ pc = "idle"
        /\ UNCHANGED <<hasWsEndpoint, config, budget, hist>>
        /\ IF SubmitRefused(session)
           THEN /\ call' = CallInit("submitBooking")
                /\ result' = Err("noBookingFilled", FALSE)
                /\ pc' = "idle"
                /\ UNCHANGED <<session, resident, orphans, page>>
           ELSE /\ w.ok
                /\ session' = w.session
                /\ resident' = w.resident
                /\ orphans' = w.orphans
                /\ page' = w.page
                /\ call' = [CallInit("submitBooking") EXCEPT
                               !.touched = TRUE, !.launched = w.launched,
                               !.user = session.currentExpert, !.sel = 1]
                /\ result' = Res("none", "running")
                /\ pc' = "submitSelectors"

\* one turn of the loop over submitSelectors; o: the control is absent or not
\* visible, looking it up throws, its click throws, or it is clicked.  A
\* freshly launched browser shows an empty page, which has no control.
SubmitTrySelector(o) ==
    LET last == call.sel + 1 > NumSubmitSelectors
        off == page # PageOf("form", call.user)
    IN  /\ pc = "submitSelectors"
        /\ o \in {"clickThrows", "clicked"} => page.kind # "blank"
        /\ o \in {"queryThrows", "clickThrows"} => call.throws < MaxThrows
        /\ UNCHANGED <<session, resident, orphans, page, hasWsEndpoint, config,
                       budget, result, hist>>
        /\ CASE o = "absent" ->
                  /\ call' = [call EXCEPT !.sel = IF last THEN 0 ELSE @ + 1]
                  /\ pc' = IF last THEN "submitNoButton" ELSE "submitSelectors"
             [] o = "queryThrows" ->
                  /\ call' = [call EXCEPT !.sel = IF last THEN 0 ELSE @ + 1,
                                          !.threw = TRUE, !.throws = @ + 1]
                  /\ pc' = IF last THEN "submitNoButton" ELSE "submitSelectors"
             [] o = "clickThrows" ->
                  /\ call' = [call EXCEPT !.sel = IF last THEN 0 ELSE @ + 1,
                                          !.clicks = @ + 1, !.offForm = @ \/ off,
                                          !.threw = TRUE, !.throws = @ + 1,
                                          !.clickAfterThrow = @ \/ call.threw]
                  /\ pc' = IF last THEN "submitNoButton" ELSE "submitSelectors"
             [] o = "clicked" ->
                  /\ call' = [call EXCEPT !.sel = 0, !.clicks = @ + 1,
                                          !.offForm = @ \/ off,
                                          !.clickAfterThrow = @ \/ call.threw]
                  /\ pc' = "submitSettle"

\* no submit control was clicked: screenshot and error; a failing screenshot
\* lands in the catch block
SubmitNoButton(shot) ==
    /\ pc = "submitNoButton"
    /\ pc' = "idle"
    /\ IF shot = "ok"
       THEN /\ result' = Err("noSubmitButton", TRUE)
            /\ UNCHANGED call
       ELSE /\ result' = [Err("submitFailed", TRUE) EXCEPT !.noRetry = TRUE]
            /\ call' = [call EXCEPT !.threw = TRUE]
    /\ UNCHANGED <<session, resident, orphans, page, hasWsEndpoint, config, budget, hist>>

\* after the click: settle delay, payment check, confirmation extraction,
\* saveStorageState, updateSession.  o: a step throws, a payment marker is
\* found, or the confirmation is read.
SubmitSettle(o) ==
    /\ pc = "submitSettle"
    /\ pc' = "idle"
    /\ UNCHANGED <<resident, orphans, hasWsEndpoint, config, budget>>
    /\ CASE o = "throws" ->
              /\ result' = [Err("submitFailed", TRUE) EXCEPT !.noRetry = TRUE]
              /\ call' = [call EXCEPT !.threw = TRUE]
              /\ UNCHANGED <<session, page, hist>>
         [] o = "payment" ->
              /\ result' = [Err("paymentStep", TRUE) EXCEPT
                               !.requiresManualPayment = TRUE, !.noRetry = TRUE]
              /\ page' = PageOf("payment", NoExpert)
              /\ hist' = [hist EXCEPT !.afterPayment = TRUE]
              /\ UNCHANGED <<session, call>>
         [] o = "confirmed" ->
              /\ hist.submitOk < MaxSubmitOk
              /\ page' = PageOf("confirmation", NoExpert)
              /\ hist' = [hist EXCEPT !.submitOk = @ + 1, !.afterSuccess = TRUE,
                                      !.afterPayment = FALSE]
              /\ IF updateSessionThrows(session)
                 THEN /\ result' = [Err("sessionParse", TRUE) EXCEPT !.noRetry = TRUE]
                      /\ call' = [call EXCEPT !.threw = TRUE]
                      /\ UNCHANGED session
                 ELSE /\ result' = [Ok("submitted") EXCEPT !.expert = call.user]
                      /\ session' = updateSession(session, [bookingFilled |-> FALSE])
                      /\ UNCHANGED call

----------------------------------------------------------------------------
(* The read operations, as far as they touch the session and the page *)

\* viewProfile(): ensureBrowser, normalizeUsername, navigation, wait for the
\* profile content.  o: "ok", "notFound" (the content never appears), "throws".
ViewProfileRun(s, r, n, pg, ws, input, o) ==
    LET w == EnsureBrowser(s, r, n, pg, ws)
        username == normalizeUsername(input)
        urlThrows == StartsWith(input, <<"h","t","t","p">>) /\ UrlThrows(input)
        shown == [w EXCEPT !.page = PageOf("profile", username)]
    IN  IF ~w.ok THEN w @@ [res |-> Thrown("none")]
        ELSE IF urlThrows THEN w @@ [res |-> Thrown("invalidUrl")]
        ELSE IF o = "throws" THEN w @@ [res |-> Thrown("navigation")]
        ELSE IF o = "notFound" THEN shown @@ [res |-> Err("profileNotFound", TRUE)]
        ELSE shown @@ [res |-> Ok("profile")]

\* the loop of compareExperts over the usernames; failAt: index whose
\* viewProfile ends as o says (0: none)
RECURSIVE CompareRun(_, _, _, _, _, _, _, _, _)
CompareRun(s, r, n, pg, ws, names, i, failAt, o) ==
    LET v == ViewProfileRun(s, r, n, pg, ws, names[i], IF i = failAt THEN o ELSE "ok")
    IN  IF ~v.ok \/ v.res.kind = "exception" THEN v
        ELSE IF v.res.kind = "error"
        THEN [v EXCEPT !.res = Err("compareFailed", FALSE)]
        ELSE IF i = Len(names) THEN [v EXCEPT !.res = Ok("comparison")]
        ELSE LET x == CompareRun(v.session, v.resident, v.orphans, v.page, ws,
                                 names, i + 1, failAt, o)
             IN  [x EXCEPT !.launched = @ \/ v.launched]

SearchExperts(nav) ==
    LET w == EnsureBrowser(session, resident, orphans, page, hasWsEndpoint)
    IN  /\ pc = "idle"
        /\ w.ok
        /\ session' = w.session
        /\ resident' = w.resident
        /\ orphans' = w.orphans
        /\ page' = IF nav = "ok" THEN PageOf("listing", NoExpert) ELSE w.page
        /\ call' = [CallInit("searchExperts") EXCEPT
                       !.touched = TRUE, !.launched = w.launched]
        /\ result' = IF nav = "ok" THEN Ok("search") ELSE Thrown("navigation")
        /\ UNCHANGED <<hasWsEndpoint, config, budget, pc, hist>>

ViewProfile(input, o) ==
    LET v == ViewProfileRun(session, resident, orphans, page, hasWsEndpoint, input, o)
    IN  /\ pc = "idle"
        /\ v.ok
        /\ session' = v.session
        /\ resident' = v.resident
        /\ orphans' = v.orphans
        /\ page' = v.page
        /\ call' = [CallInit("viewProfile") EXCEPT
                       !.touched = TRUE, !.launched = v.launched]
        /\ result' = v.res
        /\ UNCHANGED <<hasWsEndpoint, config, budget, pc, hist>>

CompareExperts(names, failAt, o) ==
    LET v == CompareRun(session, resident, orphans, page, hasWsEndpoint, names, 1,
                        failAt, o)
    IN  /\ pc = "idle"
        /\ UNCHANGED <<hasWsEndpoint, config, budget, pc, hist>>
        /\ IF Len(names) < 2 \/ Len(names) > 3
           THEN /\ call' = CallInit("compareExperts")
                /\ result' = Err("compareArity", FALSE)
                /\ UNCHANGED <<session, resident, orphans, page>>
           ELSE /\ v.ok
                /\ session' = v.session
                /\ resident' = v.resident
                /\ orphans' = v.orphans
                /\ page' = v.page
                /\ call' = [CallInit("compareExperts") EXCEPT
                               !.touched = TRUE, !.launched = v.launched]
                /\ result' = v.res

ListCalls(dash, login, nav) ==
    LET w == EnsureLoggedIn(session, resident, orphans, page, hasWsEndpoint, dash, login)
    IN  /\ pc = "idle"
        /\ w.ok
        /\ session' = w.session
        /\ resident' = w.resident
        /\ orphans' = w.orphans
        /\ page' = IF ~w.threw /\ nav = "ok" THEN PageOf("dashboard", NoExpert)
                   ELSE w.page
        /\ call' = [CallInit("listCalls") EXCEPT
                       !.touched = TRUE, !.launched = w.launched, !.logins = w.logins]
        /\ result' = IF w.threw THEN Thrown("loginFailed")
                     ELSE IF nav = "ok" THEN Ok("calls") ELSE Thrown("navigation")
        /\ UNCHANGED <<hasWsEndpoint, config, budget, pc, hist>>

TakeScreenshot(shot) ==
    LET w == EnsureBrowser(session, resident, orphans, page, hasWsEndpoint)
    IN  /\ pc = "idle"
        /\ w.ok
        /\ session' = w.session
        /\ resident' = w.resident
        /\ orphans' = w.orphans
        /\ page' = w.page
        /\ call' = [CallInit("takeScreenshot") EXCEPT
                       !.touched = TRUE, !.launched = w.launched]
        /\ result' = IF shot = "ok" THEN Ok("screenshot") ELSE Thrown("screenshot")
        /\ UNCHANGED <<hasWsEndpoint, config, budget, pc, hist>>

\* reset(): closes the browser this client object holds, deletes the record.
\* The command runs in a process of its own, whose client never acquired a
\* browser (this.browser is null): the recorded browser, when it runs, is
\* left running without a record.
Reset ==
    LET thisBrowser == FALSE
        left == IF ~thisBrowser /\ resident # "dead" THEN orphans + 1 ELSE orphans
    IN  /\ pc = "idle"
        /\ left <= MaxOrphans
        /\ orphans' = left
        /\ resident' = "dead"
        /\ session' = NoSession
        /\ call' = CallInit("reset")
        /\ result' = Res("success", "reset")
        /\ UNCHANGED <<page, hasWsEndpoint, config, budget, pc, hist>>

\* a command other than reset whose ensureBrowser has to launch, and the
\* launch throws: the command ends with that exception.  submit-booking gets
\* this far only with a record that says bookingFilled
AcquireThrows(op) ==
    \E w \in {LaunchThrows(session, resident, orphans, page)} :
        /\ pc = "idle"
        /\ ~(session # NoSession /\ session # Corrupt /\ resident = "open")
        /\ op = "submitBooking" => ~SubmitRefused(session)
        /\ w.ok
        /\ session' = w.session
        /\ resident' = w.resident
        /\ orphans' = w.orphans
        /\ page' = w.page
        /\ call' = CallInit(op)
        /\ result' = Thrown("launch")
        /\ hist' = IF op = "fillBooking" THEN [hist EXCEPT !.afterPayment = FALSE]
                   ELSE hist
        /\ UNCHANGED <<hasWsEndpoint, config, budget, pc>>

\* set-budget --monthly N
SetBudget(monthly) ==
    /\ pc = "idle"
    /\ budget' = setBudget(budget, monthly)
    /\ call' = CallInit("setBudget")
    /\ result' = Res("success", "budgetSet")
    /\ UNCHANGED <<session, resident, orphans, page, hasWsEndpoint, config, pc, hist>>

----------------------------------------------------------------------------
(* The browse URL of a search query *)

\* CATEGORY_MAP, its entries in the order Object.entries yields them
CATEGORY_MAP ==
    << [key |-> <<"b","u","s","i","n","e","s","s">>, path |-> "business"],
       [key |-> <<"s","t","r","a","t","e","g","y">>, path |-> "business/strategy"],
       [key |-> <<"b","u","s","i","n","e","s","s"," ","s","t","r","a","t","e","g","y">>, path |-> "business/strategy"],
       [key |-> <<"b","r","a","n","d","i","n","g">>, path |-> "business/branding"],
       [key |-> <<"c","a","r","e","e","r">>, path |-> "business/career-advice"],
       [key |-> <<"f","i","n","a","n","c","i","a","l">>, path |-> "business/financial-consulting"],
       [key |-> <<"h","r">>, path |-> "business/human-resources"],
       [key |-> <<"h","u","m","a","n"," ","r","e","s","o","u","r","c","e","s">>, path |-> "business/human-resources"],
       [key |-> <<"l","e","g","a","l">>, path |-> "business/legal"],
       [key |-> <<"b","u","s","i","n","e","s","s"," ","d","e","v","e","l","o","p","m","e","n","t">>, path |-> "business/business-development"],
       [key |-> <<"m","a","r","k","e","t","i","n","g">>, path |-> "sales-marketing"],
       [key |-> <<"m","a","r","k","e","t","i","n","g"," ","s","t","r","a","t","e","g","y">>, path |-> "sales-marketing"],
       [key |-> <<"s","o","c","i","a","l"," ","m","e","d","i","a">>, path |-> "sales-marketing/social-media-marketing"],
       [key |-> <<"s","o","c","i","a","l"," ","m","e","d","i","a"," ","m","a","r","k","e","t","i","n","g">>, path |-> "sales-marketing/social-media-marketing"],
       [key |-> <<"s","e","o">>, path |-> "sales-marketing/search-engine-optimization"],
       [key |-> <<"p","r">>, path |-> "sales-marketing/public-relations"],
       [key |-> <<"p","u","b","l","i","c"," ","r","e","l","a","t","i","o","n","s">>, path |-> "sales-marketing/public-relations"],
       [key |-> <<"e","m","a","i","l"," ","m","a","r","k","e","t","i","n","g">>, path |-> "sales-marketing/email-marketing"],
       [key |-> <<"i","n","b","o","u","n","d"," ","m","a","r","k","e","t","i","n","g">>, path |-> "sales-marketing/inbound-marketing"],
       [key |-> <<"g","r","o","w","t","h">>, path |-> "sales-marketing/growth-strategy"],
       [key |-> <<"g","r","o","w","t","h"," ","s","t","r","a","t","e","g","y">>, path |-> "sales-marketing/growth-strategy"],
       [key |-> <<"a","d","v","e","r","t","i","s","i","n","g">>, path |-> "sales-marketing/advertising"],
       [key |-> <<"c","o","p","y","w","r","i","t","i","n","g">>, path |-> "marketing-advertising/copywriting"],
       [key |-> <<"s","a","l","e","s">>, path |-> "sales-marketing/sales-lead-generation"],
       [key |-> <<"d","i","g","i","t","a","l"," ","m","a","r","k","e","t","i","n","g">>, path |-> "sales-marketing"],
       [key |-> <<"f","u","n","d","i","n","g">>, path |-> "funding"],
       [key |-> <<"f","i","n","a","n","c","e">>, path |-> "funding/finance"],
       [key |-> <<"c","r","o","w","d","f","u","n","d","i","n","g">>, path |-> "raising-capital/crowdfunding"],
       [key |-> <<"k","i","c","k","s","t","a","r","t","e","r">>, path |-> "raising-capital/kickstarter"],
       [key |-> <<"v","e","n","t","u","r","e"," ","c","a","p","i","t","a","l">>, path |-> "raising-capital/venture-capital"],
       [key |-> <<"v","c">>, path |-> "raising-capital/venture-capital"],
       [key |-> <<"p","r","o","d","u","c","t">>, path |-> "product-design"],
       [key |-> <<"d","e","s","i","g","n">>, path |-> "product-design"],
       [key |-> <<"p","r","o","d","u","c","t"," ","d","e","s","i","g","n">>, path |-> "product-design"],
       [key |-> <<"u","x">>, path |-> "product-design/user-experience"],
       [key |-> <<"u","s","e","r"," ","e","x","p","e","r","i","e","n","c","e">>, path |-> "product-design/user-experience"],
       [key |-> <<"l","e","a","n"," ","s","t","a","r","t","u","p">>, path |-> "product-design/lean-startup"],
       [key |-> <<"p","r","o","d","u","c","t"," ","m","a","n","a","g","e","m","e","n","t">>, path |-> "product-design/product-management"],
       [key |-> <<"a","n","a","l","y","t","i","c","s">>, path |-> "product-design/metrics-analytics"],
       [key |-> <<"t","e","c","h","n","o","l","o","g","y">>, path |-> "technology"],
       [key |-> <<"t","e","c","h">>, path |-> "technology"],
       [key |-> <<"s","o","f","t","w","a","r","e">>, path |-> "technology/software-development"],
       [key |-> <<"m","o","b","i","l","e">>, path |-> "technology/mobile"],
       [key |-> <<"w","o","r","d","p","r","e","s","s">>, path |-> "technology/wordpress"],
       [key |-> <<"c","r","m">>, path |-> "technology/crm"],
       [key |-> <<"e","c","o","m","m","e","r","c","e">>, path |-> "industries/e-commerce"],
       [key |-> <<"e","-","c","o","m","m","e","r","c","e">>, path |-> "industries/e-commerce"],
       [key |-> <<"s","a","a","s">>, path |-> "industries/saas"],
       [key |-> <<"e","d","u","c","a","t","i","o","n">>, path |-> "industries/education"],
       [key |-> <<"r","e","a","l"," ","e","s","t","a","t","e">>, path |-> "industries/real-estate"],
       [key |-> <<"m","a","r","k","e","t","p","l","a","c","e">>, path |-> "industries/marketplaces"],
       [key |-> <<"m","a","r","k","e","t","p","l","a","c","e","s">>, path |-> "industries/marketplaces"],
       [key |-> <<"n","o","n","p","r","o","f","i","t">>, path |-> "industries/nonprofit"],
       [key |-> <<"e","n","t","r","e","p","r","e","n","e","u","r","s","h","i","p">>, path |-> "skills-management/entrepreneurship"],
       [key |-> <<"l","e","a","d","e","r","s","h","i","p">>, path |-> "skills-management/leadership"],
       [key |-> <<"c","o","a","c","h","i","n","g">>, path |-> "skills-management/coaching"],
       [key |-> <<"p","r","o","d","u","c","t","i","v","i","t","y">>, path |-> "skills-management/productivity"],
       [key |-> <<"p","u","b","l","i","c"," ","s","p","e","a","k","i","n","g">>, path |-> "skills-management/public-speaking"] >>

\* what a lookup in the object literal finds for a lower-cased string that is
\* not a key of its own: the members inherited from Object.prototype, as the
\* template literal prints them
InheritedMembers ==
    << [key |-> <<"c","o","n","s","t","r","u","c","t","o","r">>,
        path |-> "function Object() { [native code] }"],
       [key |-> <<"_","_","p","r","o","t","o","_","_">>, path |-> "[object Object]"] >>

UpperCase == <<"A","B","C","D","E","F","G","H","I","J","K","L","M","N","O","P","Q","R","S","T","U","V","W","X","Y","Z">>
LowerCase == <<"a","b","c","d","e","f","g","h","i","j","k","l","m","n","o","p","q","r","s","t","u","v","w","x","y","z">>

\* String.prototype.toLowerCase
toLowerCase(s) ==
    [i \in 1..Len(s) |->
        IF \E k \in DOMAIN UpperCase : UpperCase[k] = s[i]
        THEN LowerCase[CHOOSE k \in DOMAIN UpperCase : UpperCase[k] = s[i]]
        ELSE s[i]]

\* String.prototype.trim
trim(s) ==
    LET inked == {i \in DOMAIN s : s[i] # " "}
    IN  IF inked = {} THEN <<>>
        ELSE SubSeq(s, CHOOSE i \in inked : \A j \in inked : i <= j,
                       CHOOSE i \in inked : \A j \in inked : i >= j)

\* q.includes(key)
includes(q, key) ==
    \E i \in 1..(Len(q) - Len(key) + 1) : SubSeq(q, i, i + Len(key) - 1) = key

\* table[q]: the path, or "" for undefined
Lookup(table, q) ==
    IF \E k \in DOMAIN table : table[k].key = q
    THEN table[CHOOSE k \in DOMAIN table : table[k].key = q].path
    ELSE ""

\* the for loop over Object.entries(CATEGORY_MAP) from entry k on: a key
\* replaces the best match only when it is strictly longer
RECURSIVE longestMatch(_, _, _)
longestMatch(q, k, best) ==
    IF k > Len(CATEGORY_MAP) THEN best
    ELSE longestMatch(q, k + 1,
            IF includes(q, CATEGORY_MAP[k].key)
                   /\ Len(CATEGORY_MAP[k].key) > Len(best.key)
            THEN CATEGORY_MAP[k] ELSE best)

\* `${CLARITY_BASE}/browse/${path}`, or `${CLARITY_BASE}/browse`
BrowseUrl(path) ==
    IF path = "" THEN <<"https://clarity.fm", "browse">>
    ELSE <<"https://clarity.fm", "browse", path>>

\* queryToBrowseUrl(query)
queryToBrowseUrl(query) ==
    LET q == trim(toLowerCase(query))
        own == Lookup(CATEGORY_MAP, q)
        exact == IF own # "" THEN own ELSE Lookup(InheritedMembers, q)
        best == longestMatch(q, 1, [key |-> <<>>, path |-> ""])
    IN  IF exact # "" THEN BrowseUrl(exact)
        ELSE IF best.path # "" THEN BrowseUrl(best.path)
        ELSE BrowseUrl("")

\* the queries resolved: every key, two keys joined by a blank, and queries
\* with capitals, blanks around them, no key in them, or the name of a
\* member every object inherits
QueryWords ==
    { <<"m","a","r","k","e","t","i","n","g">>,
      <<"s","t","r","a","t","e","g","y">>,
      <<"l","e","g","a","l">>,
      <<"s","a","l","e","s">>,
      <<"s","e","o">>,
      <<"g","r","o","w","t","h">> }

Queries ==
    { CATEGORY_MAP[k].key : k \in DOMAIN CATEGORY_MAP }
    \cup { a \o <<" ">> \o b : a, b \in QueryWords }
    \cup { <<" ">>,
           <<"M","a","r","k","e","t","i","n","g"," ","S","t","r","a","t","e","g","y">>,
           <<" "," ","S","E","O"," ">>,
           <<"c","o","m","p","l","e","t","e","l","y"," ","u","n","k","n","o","w","n"," ","t","o","p","i","c">>,
           <<"i","m","p","r","o","v","e"," ","m","y"," ","p","i","t","c","h">>,
           <<"c","o","n","s","t","r","u","c","t","o","r">>,
           <<"_","_","p","r","o","t","o","_","_">> }

\* the query is resolved to the URL searchExperts navigates to
ResolveQuery ==
    /\ pc = "idle"
    /\ call.op = "queryToBrowseUrl"
    /\ result.kind = "none"
    /\ result' = Ok("url") @@ [url |-> queryToBrowseUrl(call.query)]
    /\ UNCHANGED <<session, resident, orphans, page, hasWsEndpoint, config, budget,
                   pc, call, hist>>

----------------------------------------------------------------------------
(* The read operations with the records they return *)

\* a browse page: its cards in page order, each with the handle of its
\* profile link (its position on the page) and its <strong> text
PageWith(texts) == [i \in 1..Len(texts) |-> [username |-> i, strong |-> texts[i]]]

ShortPages == UNION { { PageWith(t) : t \in [1..n -> CardTexts] } : n \in 0..MaxCards }
LongPage == PageWith([i \in 1..LongPageLen |-> <<"$","5">>])

\* the pages on which enrichment is exercised: one card; three cards, the
\* last without a rate; four cards (two batches)
EnrichPages ==
    { PageWith(<< <<"$","5">> >>),
      PageWith(<< <<"$","5">>, <<"$","1","5",".","0","0">>, <<>> >>),
      PageWith(<< <<"$","5">>, <<"$","5">>, <<"$","1","5",".","0","0">>, <<"$","5">> >>) }

\* search-experts: rate filters and --limit without enrichment, or
\* enrichment without filters
SearchInputs ==
    [cards : ShortPages, minRate : {Null, 0, 1000}, maxRate : {Null, 0, 1000},
     limit : {Null, 1, 2}, enrich : {Null}]
    \cup [cards : {LongPage}, minRate : {Null}, maxRate : {Null, 1000},
          limit : {Null, 2, MaxLimit}, enrich : {Null, 0}]
    \cup [cards : EnrichPages, minRate : {Null}, maxRate : {Null},
          limit : {Null}, enrich : {1, 2, MaxEnrich}]

\* what a profile page shows: the rating marker (70: "7.0 stars", out of
\* range) and the review count
FetchPages ==
    { [rating |-> Null, reviews |-> Null], [rating |-> 45, reviews |-> 10],
      [rating |-> 70, reviews |-> 10], [rating |-> 45, reviews |-> Null] }

ProfilePages == [rateText : RateTexts, rating : {Null, 45, 70}, reviews : {Null, 10}]

\* the navigation of a fetch times out, or its scrape throws
FetchFails == [fails |-> TRUE]

NoValue == [rating |-> Null, reviewCount |-> Null]

\* variant: every remaining fetch starts in one batch
NewBatch_AllAtOnce(enriched, i) ==
    [j \in 1..(Len(enriched) - i) |-> [status |-> "pending", value |-> NoValue]]

\* the fetches of the batch that starts after index i (0-based) of enriched
NewBatch(enriched, i) ==
    [j \in 1..Min(MAX_CONCURRENT, Len(enriched) - i) |->
        [status |-> "pending", value |-> NoValue]]

\* what is known of the fetch of one record: not started, tab requested,
\* or what it ended with (a page of FetchPages, FetchFails)
NotStarted == [started |-> FALSE]
Started == [started |-> TRUE]

\* context.newPage() threw: the fetch is rejected and no tab was opened
TabThrows == [fails |-> TRUE, tab |-> FALSE]

\* variant: results.forEach applies the first result of the batch to every
\* record of the batch
resultOf_First(idx, i) == 1

\* results.forEach((result, j) => { const idx = i + j; ... }): the result
\* that goes to enriched[idx] (1-based)
resultOf(idx, i) == idx - i

\* variant: the tab of a fetch that fails stays open
settleFetch_LeaksOnFailure(o) ==
    IF o = FetchFails THEN [status |-> "rejected", value |-> NoValue, closes |-> 0]
    ELSE [status |-> "fulfilled", value |-> scrapeProfile(o), closes |-> 1]

\* goto, evaluate and the finally of one fetch whose tab is open: the scrape
\* of page o or a rejection, and tab.close() either way
settleFetch(o) ==
    IF o = FetchFails THEN [status |-> "rejected", value |-> NoValue, closes |-> 1]
    ELSE [status |-> "fulfilled", value |-> scrapeProfile(o), closes |-> 1]

\* variant: every extracted record is enriched
toEnrich_All(experts, enrich) == experts

\* experts.slice(0, options.enrich)
toEnrich(experts, enrich) == SubSeq(experts, 1, Min(enrich, Len(experts)))

\* the return value of searchExperts
SearchResult(experts, enrichedCount) ==
    Ok("search") @@ [experts |-> experts, totalResults |-> Len(experts),
                     enriched |-> enrichedCount]

\* searchExperts up to the start of enrichment.  in: options and page
\* content; nav: the navigation to the browse page succeeds or throws
SearchRun(in, nav) ==
    LET w == EnsureBrowser(session, resident, orphans, page, hasWsEndpoint)
        experts == extractExperts(in.cards, searchLimit(in.limit), in.minRate, in.maxRate)
        enrichNow == Truthy(in.enrich) /\ in.enrich > 0 /\ Len(experts) > 0
        c == [CallInit("searchExperts") EXCEPT !.touched = TRUE, !.launched = w.launched]
    IN  /\ pc = "idle"
        /\ w.ok
        /\ session' = w.session
        /\ resident' = w.resident
        /\ orphans' = w.orphans
        /\ UNCHANGED <<hasWsEndpoint, config, budget, hist>>
        /\ IF nav = "throws"
           THEN /\ page' = w.page
                /\ call' = c
                /\ result' = Thrown("navigation")
                /\ pc' = "idle"
           ELSE /\ page' = PageOf("listing", NoExpert)
                /\ IF enrichNow
                   THEN /\ call' = c @@ [in |-> in, extracted |-> experts,
                                        enriched |-> toEnrich(experts, in.enrich),
                                        i |-> 0,
                                        fetch |-> NewBatch(toEnrich(experts, in.enrich), 0),
                                        log |-> [idx \in 1..Len(toEnrich(experts, in.enrich))
                                                    |-> NotStarted],
                                        openTabs |-> 0]
                        /\ result' = Res("none", "running")
                        /\ pc' = "enrich"
                   ELSE /\ call' = c @@ [in |-> in, extracted |-> experts,
                                        enriched |-> <<>>, i |-> 0, fetch |-> <<>>,
                                        log |-> <<>>, openTabs |-> 0]
                        /\ result' = SearchResult(experts, 0)
                        /\ pc' = "idle"

\* fetch j of the running batch opens its tab (context.newPage), or that throws
EnrichOpenTab(j, o) ==
    /\ pc = "enrich"
    /\ j \in DOMAIN call.fetch
    /\ call.fetch[j].status = "pending"
    /\ call' = [call EXCEPT !.fetch[j].status =
                                IF o = "opened" THEN "open" ELSE "rejected",
                            !.log[call.i + j] = IF o = "opened" THEN Started ELSE TabThrows,
                            !.openTabs = IF o = "opened" THEN @ + 1 ELSE @]
    /\ UNCHANGED <<session, resident, orphans, page, hasWsEndpoint, config, budget,
                   pc, result, hist>>

\* fetch j settles: navigation or scrape throws, or the scrape returns what
\* the profile page o shows; the tab is closed either way
EnrichFetch(j, o) ==
    /\ pc = "enrich"
    /\ j \in DOMAIN call.fetch
    /\ call.fetch[j].status = "open"
    /\ \E f \in {settleFetch(o)} :
          call' = [call EXCEPT !.fetch[j] = [status |-> f.status, value |-> f.value],
                               !.log[call.i + j] = o,
                               !.openTabs = @ - f.closes]
    /\ UNCHANGED <<session, resident, orphans, page, hasWsEndpoint, config, budget,
                   pc, result, hist>>

\* every fetch of the batch has settled: results.forEach, then the next
\* batch, or the rest of searchExperts: replace, count, re-sort, return
EnrichApply ==
    LET applied == [idx \in 1..Len(call.enriched) |->
                       IF idx > call.i /\ idx <= call.i + Len(call.fetch)
                       THEN applyFetch(call.enriched[idx],
                                       call.fetch[resultOf(idx, call.i)])
                       ELSE call.enriched[idx]]
        more == call.i + MAX_CONCURRENT < Len(applied)
        experts == applied \o SubSeq(call.extracted, Len(applied) + 1, Len(call.extracted))
        enrichedCount == Cardinality({idx \in DOMAIN applied : applied[idx].rating # Null})
    IN  /\ pc = "enrich"
        /\ \A j \in DOMAIN call.fetch : call.fetch[j].status \in {"fulfilled", "rejected"}
        /\ UNCHANGED <<session, resident, orphans, page, hasWsEndpoint, config, budget, hist>>
        /\ IF more
           THEN /\ call' = [call EXCEPT !.enriched = applied,
                                        !.i = @ + MAX_CONCURRENT,
                                        !.fetch = NewBatch(applied, call.i + MAX_CONCURRENT)]
                /\ UNCHANGED <<pc, result>>
           ELSE /\ call' = [call EXCEPT !.enriched = applied]
                /\ result' = SearchResult(SortBy("search", experts, <<>>), enrichedCount)
                /\ pc' = "idle"

\* viewProfile with the record it returns; pg: what the profile page shows
ViewProfileData(input, pg, o) ==
    \E v \in {ViewProfileRun(session, resident, orphans, page, hasWsEndpoint, input, o)} :
        /\ pc = "idle"
        /\ v.ok
        /\ session' = v.session
        /\ resident' = v.resident
        /\ orphans' = v.orphans
        /\ page' = v.page
        /\ call' = [CallInit("viewProfile") EXCEPT
                       !.touched = TRUE, !.launched = v.launched] @@ [pg |-> pg]
        /\ result' = IF v.res.kind = "success"
                     THEN v.res @@ [profile |-> ProfileRecord(normalizeUsername(input), pg)]
                     ELSE v.res
        /\ UNCHANGED <<hasWsEndpoint, config, budget, pc, hist>>

\* compareExperts with the records it returns; pgs: what each profile page shows
CompareData(names, failAt, o, pgs) ==
    /\ pc = "idle"
    /\ UNCHANGED <<hasWsEndpoint, config, budget, pc, hist>>
    /\ IF Len(names) < 2 \/ Len(names) > 3
       THEN /\ call' = CallInit("compareExperts")
                         @@ [pgs |-> <<>>, names |-> names, failAt |-> failAt]
            /\ result' = Err("compareArity", FALSE)
            /\ UNCHANGED <<session, resident, orphans, page>>
       ELSE \E v \in {CompareRun(session, resident, orphans, page, hasWsEndpoint,
                                 names, 1, failAt, o)},
               profiles \in {[i \in 1..Len(names) |->
                                ProfileRecord(normalizeUsername(names[i]), pgs[i])]} :
                /\ v.ok
                /\ session' = v.session
                /\ resident' = v.resident
                /\ orphans' = v.orphans
                /\ page' = v.page
                /\ call' = [CallInit("compareExperts") EXCEPT
                               !.touched = TRUE, !.launched = v.launched]
                            @@ [pgs |-> SubSeq(pgs, 1, Len(names)), names |-> names,
                                failAt |-> failAt]
                /\ result' = IF v.res.kind = "success"
                             THEN v.res @@ [profiles |-> profiles,
                                            bestValue |-> SortBy("best", profiles, <<>>)[1]]
                             ELSE v.res

----------------------------------------------------------------------------
(* The environment between two commands *)

\* the recorded browser ends (closed by the user, crashed, killed)
ResidentDies ==
    /\ pc = "idle"
    /\ resident # "dead"
    /\ resident' = "dead"
    /\ UNCHANGED <<session, orphans, page, hasWsEndpoint, config, budget, pc, call,
                   result, hist>>

\* the session file is damaged: it no longer parses
RecordCorrupted ==
    /\ pc = "idle"
    /\ session # NoSession
    /\ session # Corrupt
    /\ session' = Corrupt
    /\ UNCHANGED <<resident, orphans, page, hasWsEndpoint, config, budget, pc, call,
                   result, hist>>

\* the session file is damaged while a command is between its ensureBrowser
\* and its updateSession
RecordCorruptedInCall ==
    /\ pc # "idle"
    /\ session # NoSession
    /\ session # Corrupt
    /\ session' = Corrupt
    /\ UNCHANGED <<resident, orphans, page, hasWsEndpoint, config, budget, pc, call,
                   result, hist>>

\* a browser without a record ends
OrphanDies ==
    /\ pc = "idle"
    /\ orphans > 0
    /\ orphans' = orphans - 1
    /\ UNCHANGED <<session, resident, page, hasWsEndpoint, config, budget, pc, call,
                   result, hist>>

\* the user closes every tab of the recorded browser, which keeps running
TabsClosed ==
    /\ pc = "idle"
    /\ resident = "open"
    /\ resident' = "noPage"
    /\ UNCHANGED <<session, orphans, page, hasWsEndpoint, config, budget, pc, call,
                   result, hist>>

----------------------------------------------------------------------------
\* dashboard check and login together (login runs only after a failed or
\* skipped check)
AuthOutcomes ==
    { [dash |-> "ok", login |-> "ok"],
      [dash |-> "fails", login |-> "ok"],
      [dash |-> "fails", login |-> "fail"] }
NavOutcomes == {"ok", "throws"}
ShotOutcomes == {"ok", "throws"}
ViewOutcomes == {"ok", "notFound", "throws"}
FillOutcomes == {"absent", "clickThrows", "clicked"}
SubmitOutcomes == {"absent", "queryThrows", "clickThrows", "clicked"}
SettleOutcomes == {"throws", "payment", "confirmed"}
\* compare-experts: one name (refused), or two names of which none, the
\* first or the second fails to load
CompareInputs ==
    { [names |-> <<<<"a">>>>, failAt |-> 0, o |-> "notFound"] }
    \cup { [names |-> <<<<"a">>, <<"@", "b">>>>, failAt |-> 0, o |-> "notFound"] }
    \cup [names : { <<<<"a">>, <<"@", "b">>>> }, failAt : 1..2, o : {"notFound", "throws"}]

Next ==
    \/ \E input \in ExpertInputs, a \in AuthOutcomes, nav \in NavOutcomes :
          FillStart(input, a.dash, a.login, nav)
    \/ \E o \in FillOutcomes : FillTrySelector(o)
    \/ \E shot \in ShotOutcomes : FillNoButton(shot)
    \/ \E shot \in ShotOutcomes : FillForm(0, ListedRate, shot)
    \/ SubmitStart
    \/ \E o \in SubmitOutcomes : SubmitTrySelector(o)
    \/ \E shot \in ShotOutcomes : SubmitNoButton(shot)
    \/ \E o \in SettleOutcomes : SubmitSettle(o)
    \/ \E nav \in NavOutcomes : SearchExperts(nav)
    \/ \E input \in ExpertInputs, o \in ViewOutcomes : ViewProfile(input, o)
    \/ \E c \in CompareInputs : CompareExperts(c.names, c.failAt, c.o)
    \/ \E a \in AuthOutcomes, nav \in NavOutcomes : ListCalls(a.dash, a.login, nav)
    \/ \E shot \in ShotOutcomes : TakeScreenshot(shot)
    \/ Reset
    \/ ResidentDies
    \/ OrphanDies
    \/ TabsClosed

\* the commands of ClarityClient and the environment of the browser, for a
\* profile that lists its rate and a booking of the default duration
Spec == Init /\ [][Next]_vars

\* the booking commands and the budget commands, for every configured
\* monthlyBudget, with a browser that answers wsEndpoint() and stays up
InitBudget ==
    /\ session = NoSession
    /\ resident = "dead"
    /\ orphans = 0
    /\ page = BlankPage
    /\ hasWsEndpoint = TRUE
    /\ config \in [monthlyBudget : BudgetCaps]
    /\ budget = [monthlyCap |-> 0, entries |-> <<>>]
    /\ pc = "idle"
    /\ hist = [submitOk |-> 0, afterPayment |-> FALSE, afterSuccess |-> FALSE]
    /\ call = [op |-> "none", pre |-> NoSession, user |-> NoExpert,
               sel |-> 0, clicks |-> 0, offForm |-> FALSE, touched |-> FALSE,
               launched |-> FALSE, logins |-> 0, threw |-> FALSE, throws |-> 0,
               clickAfterThrow |-> FALSE]
    /\ result = Res("none", "none")

NextBudget ==
    \/ \E input \in ExpertInputs, a \in AuthOutcomes, nav \in NavOutcomes :
          FillStart(input, a.dash, a.login, nav)
    \/ \E o \in FillOutcomes : FillTrySelector(o)
    \/ \E shot \in ShotOutcomes : FillNoButton(shot)
    \/ \E d \in Durations, rt \in RateTexts, shot \in ShotOutcomes : FillForm(d, rt, shot)
    \/ SubmitStart
    \/ \E o \in SubmitOutcomes : SubmitTrySelector(o)
    \/ \E shot \in ShotOutcomes : SubmitNoButton(shot)
    \/ \E o \in SettleOutcomes : SubmitSettle(o)
    \/ \E m \in BudgetCaps : SetBudget(m)

SpecBudget == InitBudget /\ [][NextBudget]_vars

\* compare-experts with one to four names; failAt: the name whose profile
\* does not load (0: none)
CompareReadInputs ==
    CompareInputs
    \cup [names : { <<<<"a">>, <<"@", "b">>, <<"c">>>> }, failAt : {0, 3},
          o : {"notFound"}]
    \cup { [names |-> <<<<"a">>, <<"@", "b">>, <<"c">>, <<"d">>>>, failAt |-> 0,
            o |-> "notFound"] }

\* one read command, with the records it returns, run by a fresh process on
\* every page content: the records depend on nothing else
InitRead ==
    /\ session = NoSession
    /\ resident = "dead"
    /\ orphans = 0
    /\ page = BlankPage
    /\ hasWsEndpoint = TRUE
    /\ config = [monthlyBudget |-> 0]
    /\ budget = [monthlyCap |-> 0, entries |-> <<>>]
    /\ pc = "idle"
    /\ hist = [submitOk |-> 0, afterPayment |-> FALSE, afterSuccess |-> FALSE]
    /\ call = [op |-> "none", pre |-> NoSession, user |-> NoExpert,
               sel |-> 0, clicks |-> 0, offForm |-> FALSE, touched |-> FALSE,
               launched |-> FALSE, logins |-> 0, threw |-> FALSE, throws |-> 0,
               clickAfterThrow |-> FALSE]
    /\ result = Res("none", "none")

NextRead ==
    \/ /\ call.op = "none"
       /\ \E in \in SearchInputs, nav \in NavOutcomes : SearchRun(in, nav)
    \/ \E j \in 1..MaxEnrich, o \in {"opened", "throws"} : EnrichOpenTab(j, o)
    \/ \E j \in 1..MaxEnrich, o \in FetchPages \cup {FetchFails} : EnrichFetch(j, o)
    \/ EnrichApply
    \/ /\ call.op = "none"
       /\ \E input \in ExpertInputs, pg \in ProfilePages, o \in ViewOutcomes :
             ViewProfileData(input, pg, o)
    \/ /\ call.op = "none"
       /\ \E c \in CompareReadInputs, pgs \in [1..3 -> ProfilePages] :
             CompareData(c.names, c.failAt, c.o, pgs)

SpecRead == InitRead /\ [][NextRead]_vars

\* queryToBrowseUrl applied to one query
InitQuery ==
    /\ session = NoSession
    /\ resident = "dead"
    /\ orphans = 0
    /\ page = BlankPage
    /\ hasWsEndpoint = TRUE
    /\ config = [monthlyBudget |-> 0]
    /\ budget = [monthlyCap |-> 0, entries |-> <<>>]
    /\ pc = "idle"
    /\ hist = [submitOk |-> 0, afterPayment |-> FALSE, afterSuccess |-> FALSE]
    /\ call \in { [op |-> "queryToBrowseUrl", query |-> q] : q \in Queries }
    /\ result = Res("none", "none")

NextQuery == ResolveQuery

SpecQuery == InitQuery /\ [][NextQuery]_vars

\* the commands that acquire the browser
BrowserOps ==
    {"searchExperts", "viewProfile", "compareExperts", "fillBooking", "submitBooking",
     "listCalls", "takeScreenshot"}

\* the --expert of the commands of SpecSession
OneExpert == { <<"a">> }

\* the commands and the environment of Spec for one expert, on a build whose
\* browser answers wsEndpoint(), with a session file that can be damaged and
\* a launch that can throw
InitSession == Init /\ hasWsEndpoint = TRUE

NextSession ==
    \/ \E input \in OneExpert, a \in AuthOutcomes, nav \in NavOutcomes :
          FillStart(input, a.dash, a.login, nav)
    \/ \E o \in FillOutcomes : FillTrySelector(o)
    \/ \E shot \in ShotOutcomes : FillNoButton(shot)
    \/ \E shot \in ShotOutcomes : FillForm(0, ListedRate, shot)
    \/ SubmitStart
    \/ \E o \in SubmitOutcomes : SubmitTrySelector(o)
    \/ \E shot \in ShotOutcomes : SubmitNoButton(shot)
    \/ \E o \in SettleOutcomes : SubmitSettle(o)
    \/ \E nav \in NavOutcomes : SearchExperts(nav)
    \/ \E input \in OneExpert, o \in ViewOutcomes : ViewProfile(input, o)
    \/ \E c \in CompareInputs : CompareExperts(c.names, c.failAt, c.o)
    \/ \E a \in AuthOutcomes, nav \in NavOutcomes : ListCalls(a.dash, a.login, nav)
    \/ \E shot \in ShotOutcomes : TakeScreenshot(shot)
    \/ Reset
    \/ \E op \in BrowserOps : AcquireThrows(op)
    \/ ResidentDies
    \/ OrphanDies
    \/ TabsClosed
    \/ RecordCorrupted

SpecSession == InitSession /\ [][NextSession]_vars

\* the booking commands for one expert, with a browser that stays up and a
\* session file that can be damaged at any moment
InitFiles == Init /\ hasWsEndpoint = TRUE

NextFiles ==
    \/ \E input \in OneExpert, a \in AuthOutcomes, nav \in NavOutcomes :
          FillStart(input, a.dash, a.login, nav)
    \/ \E o \in FillOutcomes : FillTrySelector(o)
    \/ \E shot \in ShotOutcomes : FillNoButton(shot)
    \/ \E shot \in ShotOutcomes : FillForm(0, ListedRate, shot)
    \/ SubmitStart
    \/ \E o \in SubmitOutcomes : SubmitTrySelector(o)
    \/ \E shot \in ShotOutcomes : SubmitNoButton(shot)
    \/ \E o \in SettleOutcomes : SubmitSettle(o)
    \/ \E shot \in ShotOutcomes : TakeScreenshot(shot)
    \/ RecordCorrupted
    \/ RecordCorruptedInCall

SpecFiles == InitFiles /\ [][NextFiles]_vars

----------------------------------------------------------------------------
(* login(), its wait for the outcome step by step *)

\* the outcome of one of the two waits of login(): it resolves, or it
\* rejects (timeout after 30 s, or an error of the page)
WaitOutcomes == {"resolved", "rejected"}

\* Promise.race: the race settles as the first wait that settles does
raceAfter(race, o) == IF race = "pending" THEN o ELSE race

\* list-calls up to the click on the login button.
\* dash: the dashboard check of a logged-in session; form: the login form
\* has its fields ("ok") or a field is not found; nav: the navigation of
\* listCalls when no login is needed
ListCallsStart(dash, form, nav) ==
    \E w1 \in {EnsureBrowser(session, resident, orphans, page, hasWsEndpoint)} :
        /\ pc = "idle"
        /\ w1.ok
        /\ UNCHANGED <<hasWsEndpoint, config, budget, hist>>
        /\ IF w1.session # NoSession /\ w1.session.loggedIn /\ dash = "ok"
           THEN /\ session' = w1.session
                /\ resident' = w1.resident
                /\ orphans' = w1.orphans
                /\ page' = IF nav = "ok" THEN PageOf("dashboard", NoExpert) ELSE w1.page
                /\ call' = [CallInit("listCalls") EXCEPT
                               !.touched = TRUE, !.launched = w1.launched]
                /\ result' = IF nav = "ok" THEN Ok("calls") ELSE Thrown("navigation")
                /\ pc' = "idle"
           ELSE \E w2 \in {EnsureBrowser(w1.session, w1.resident, w1.orphans, w1.page,
                                         hasWsEndpoint)} :
                /\ w2.ok
                /\ session' = w2.session
                /\ resident' = w2.resident
                /\ orphans' = w2.orphans
                /\ page' = PageOf("login", NoExpert)
                /\ call' = [CallInit("listCalls") EXCEPT
                               !.touched = TRUE,
                               !.launched = w1.launched \/ w2.launched,
                               !.logins = 1]
                            @@ [urlWait |-> "pending", selWait |-> "pending",
                                race |-> IF form = "ok" THEN "pending" ELSE "none",
                                atLogin |-> w2.session]
                /\ result' = IF form = "ok" THEN Res("none", "running")
                             ELSE Thrown("loginFailed")
                /\ pc' = IF form = "ok" THEN "loginRace" ELSE "idle"

\* page.waitForURL(/dashboard|home|clarity\.fm\/$/) settles
LoginUrlSettles(o) ==
    /\ pc = "loginRace"
    /\ call.urlWait = "pending"
    /\ call' = [call EXCEPT !.urlWait = o, !.race = raceAfter(@, o)]
    /\ UNCHANGED <<session, resident, orphans, page, hasWsEndpoint, config, budget,
                   pc, result, hist>>

\* page.waitForSelector(avatar, user menu, settings link) settles
LoginSelectorSettles(o) ==
    /\ pc = "loginRace"
    /\ call.selWait = "pending"
    /\ call' = [call EXCEPT !.selWait = o, !.race = raceAfter(@, o)]
    /\ UNCHANGED <<session, resident, orphans, page, hasWsEndpoint, config, budget,
                   pc, result, hist>>

\* the race has settled: saveStorageState, updateSession and the rest of
\* listCalls, or the error screenshot and the throw
LoginFinish(shot, nav) ==
    /\ pc = "loginRace"
    /\ call.race # "pending"
    /\ pc' = "idle"
    /\ UNCHANGED <<resident, orphans, hasWsEndpoint, config, budget, call, hist>>
    /\ IF call.race = "resolved"
       THEN IF updateSessionThrows(session)
            THEN /\ result' = Thrown("sessionParse")
                 /\ UNCHANGED <<session, page>>
            ELSE /\ session' = updateSession(session, [loggedIn |-> TRUE])
                 /\ page' = IF nav = "ok" THEN PageOf("dashboard", NoExpert) ELSE page
                 /\ result' = IF nav = "ok" THEN Ok("calls") ELSE Thrown("navigation")
       ELSE /\ result' = Thrown(IF shot = "ok" THEN "loginFailed" ELSE "screenshot")
            /\ UNCHANGED <<session, page>>

\* list-calls with its login step by step, reset, and the environment, on
\* a build whose browser answers wsEndpoint()
InitLogin == Init /\ hasWsEndpoint = TRUE

NextLogin ==
    \/ \E dash \in {"ok", "fails"}, form \in {"ok", "noField"}, nav \in NavOutcomes :
          ListCallsStart(dash, form, nav)
    \/ \E o \in WaitOutcomes : LoginUrlSettles(o)
    \/ \E o \in WaitOutcomes : LoginSelectorSettles(o)
    \/ \E shot \in ShotOutcomes, nav \in NavOutcomes : LoginFinish(shot, nav)
    \/ Reset
    \/ ResidentDies
    \/ OrphanDies
    \/ TabsClosed

SpecLogin == InitLogin /\ [][NextLogin]_vars

----------------------------------------------------------------------------
(* BudgetTracker objects over one budget.json *)

\* the objects that exist at one time, each in a process of its own or not
Trackers == { 1, 2 }

\* this.data of an object that has not been constructed
Unloaded == [unloaded |-> TRUE]

\* budget.json missing
NoBudgetFile == [absent |-> TRUE]

\* budget.json whose content JSON.parse rejects
CorruptBudgetFile == [unparseable |-> TRUE]

\* load(): the parsed file, or an empty ledger when there is no file or the
\* parse throws
load(file) ==
    IF file = NoBudgetFile \/ file = CorruptBudgetFile
    THEN [monthlyCap |-> 0, entries |-> <<>>]
    ELSE file

\* save(): the file becomes this.data, whole
save(data) == data

\* new BudgetTracker()
NewTracker(p) ==
    /\ call' = [call EXCEPT !.data[p] = load(budget)]
    /\ result' = Res("none", "constructed")
    /\ UNCHANGED <<session, resident, orphans, page, hasWsEndpoint, config, budget,
                   pc, hist>>

\* addEntry(expert, duration, costPerMinute) of object p: push, then save
TrackerAddEntry(p, expert, duration, costPerMinute) ==
    /\ call.data[p] # Unloaded
    /\ Len(call.data[p].entries) < MaxLedger
    /\ \E d \in {addEntry(call.data[p], expert, duration, costPerMinute)} :
          /\ call' = [call EXCEPT !.data[p] = d]
          /\ budget' = save(d)
    /\ result' = Res("none", "entryAdded")
    /\ UNCHANGED <<session, resident, orphans, page, hasWsEndpoint, config, pc, hist>>

\* setBudget(monthly) of object p: assign, then save
TrackerSetBudget(p, monthly) ==
    /\ call.data[p] # Unloaded
    /\ \E d \in {setBudget(call.data[p], monthly)} :
          /\ call' = [call EXCEPT !.data[p] = d]
          /\ budget' = save(d)
    /\ result' = Res("success", "budgetSet")
    /\ UNCHANGED <<session, resident, orphans, page, hasWsEndpoint, config, pc, hist>>

\* no budget.json or a damaged one, no BudgetTracker constructed
InitLedger ==
    /\ session = NoSession
    /\ resident = "dead"
    /\ orphans = 0
    /\ page = BlankPage
    /\ hasWsEndpoint = TRUE
    /\ config = [monthlyBudget |-> 0]
    /\ budget \in { NoBudgetFile, CorruptBudgetFile }
    /\ pc = "idle"
    /\ hist = [submitOk |-> 0, afterPayment |-> FALSE, afterSuccess |-> FALSE]
    /\ call = [op |-> "budget", data |-> [p \in Trackers |-> Unloaded]]
    /\ result = Res("none", "none")

NextLedger ==
    \/ \E p \in Trackers : NewTracker(p)
    \/ \E p \in Trackers, e \in OneExpert \cup { <<"b">> }, d \in {15, 120} :
          TrackerAddEntry(p, e, d, parseRate(ListedRate))
    \/ \E p \in Trackers, m \in BudgetCaps : TrackerSetBudget(p, m)

\* any calls of any BudgetTracker objects, each constructed at any time
SpecLedger == InitLedger /\ [][NextLedger]_vars

----------------------------------------------------------------------------
(* Properties of the booking state machine *)

Running == {"submitSelectors", "submitNoButton", "submitSettle"}

\* the two fields of the record the booking state machine lives in; a
\* missing record counts as "nothing filled"
Booking(s) ==
    IF s = NoSession THEN [bookingFilled |-> FALSE, currentExpert |-> NoExpert]
    ELSE [bookingFilled |-> s.bookingFilled, currentExpert |-> s.currentExpert]

\* C1: submitBooking started without a record, or with a record whose
\* bookingFilled is false, has returned the no-booking-filled error at once:
\* no launch or reconnect, no navigation, no click, no screenshot.
C1_SubmitWithoutFillRefused ==
    (call.op = "submitBooking" /\ (call.pre = NoSession \/ ~call.pre.bookingFilled))
        => /\ pc = "idle"
           /\ result.kind = "error"
           /\ result.msg = "noBookingFilled"
           /\ ~call.touched
           /\ ~call.launched
           /\ call.clicks = 0
           /\ ~result.screenshot

\* a submitBooking was refused although a record exists
C1_Witness ==
    /\ call.op = "submitBooking"
    /\ call.pre # NoSession
    /\ ~call.pre.bookingFilled
    /\ result.msg = "noBookingFilled"

\* C2, as claimed: once a submitBooking has ended at the payment step, a later
\* submitBooking (no fillBooking in between) clicks no submit control.
C2_NoClickAfterPaymentStep ==
    (hist.afterPayment /\ pc \in Running) => call.clicks = 0

\* C3, as claimed: a submitBooking in which some step raised an exception has
\* ended with the do-not-retry error and clicked nothing after the exception.
C3_ExceptionEndsSubmit ==
    (call.op = "submitBooking" /\ pc = "idle" /\ call.threw)
        => /\ result.kind = "error"
           /\ result.noRetry
           /\ ~call.clickAfterThrow

\* C4, as claimed: every submit control that submitBooking clicks is on the
\* booking form of the record's currentExpert.
C4_ClickOnlyOnFilledForm ==
    (call.op = "submitBooking" /\ call.clicks > 0) => ~call.offForm

\* C5: after a successful submitBooking, and until the next successful
\* fillBooking, the record (if any) has bookingFilled = false and every
\* further submitBooking has returned the no-booking-filled error without a
\* click.
C5_SuccessClearsBookingFilled ==
    hist.afterSuccess
        => /\ session = NoSession \/ ~session.bookingFilled
           /\ (call.op = "submitBooking" /\ result.msg # "submitted")
                 => /\ pc = "idle"
                    /\ result.msg = "noBookingFilled"
                    /\ call.clicks = 0

\* a submitBooking was refused after a successful one
C5_Witness ==
    /\ hist.afterSuccess
    /\ call.op = "submitBooking"
    /\ call.pre # NoSession
    /\ call.pre.currentExpert # NoExpert
    /\ result.msg = "noBookingFilled"

\* C6, as claimed: after a successful fillBooking the record exists, with
\* bookingFilled = true and currentExpert the normalized handle.
C6_FillSuccessRecorded ==
    (call.op = "fillBooking" /\ pc = "idle" /\ result.msg = "formFilled")
        => /\ session # NoSession
           /\ session.bookingFilled
           /\ session.currentExpert = call.user

\* C7, as claimed: a fillBooking that found no booking control leaves
\* bookingFilled and currentExpert as they were before the call.
C7_NoButtonKeepsBooking ==
    (call.op = "fillBooking" /\ pc = "idle" /\ result.msg = "noBookingButton")
        => Booking(session) = Booking(call.pre)

\* C7, amended: a fillBooking that found no booking control returns an error
\* with a screenshot; bookingFilled and currentExpert are as before the call
\* unless the call had to launch a browser, and then nothing is filled.
C7_NoButtonKeepsOrResetsBooking ==
    (call.op = "fillBooking" /\ pc = "idle" /\ result.msg = "noBookingButton")
        => /\ result.kind = "error"
           /\ result.screenshot
           /\ Booking(session) =
                 IF call.launched THEN Booking(NoSession) ELSE Booking(call.pre)

\* a fillBooking for another expert found no booking control while a booking
\* was filled, in the browser of that booking
C7_Witness ==
    /\ call.op = "fillBooking"
    /\ pc = "idle"
    /\ result.msg = "noBookingButton"
    /\ ~call.launched
    /\ call.pre # NoSession
    /\ call.pre.bookingFilled
    /\ call.pre.currentExpert # call.user
    /\ Booking(session) = Booking(call.pre)

----------------------------------------------------------------------------
(* Properties of the budget ledger *)

\* C8, as claimed: after a successful submitBooking the ledger holds an entry
\* for the expert of that booking.
C8_SuccessAddsLedgerEntry ==
    (call.op = "submitBooking" /\ pc = "idle" /\ result.msg = "submitted")
        => \E i \in DOMAIN budget.entries : budget.entries[i].expert = result.expert

\* C9: the ledger never holds more entries than there were successful
\* submitBooking calls: fillBooking, a failing submitBooking and one that ends
\* at the payment step add none.
C9_EntriesAtMostSuccesses ==
    Len(budget.entries) <= hist.submitOk

\* a booking was filled and its submitBooking ended at the payment step,
\* before any successful submission
C9_Witness ==
    /\ call.op = "submitBooking"
    /\ pc = "idle"
    /\ result.requiresManualPayment
    /\ call.clicks > 0
    /\ hist.submitOk = 0
    /\ budget.entries = <<>>

\* C10, as claimed: a successful fillBooking carries a budgetWarning whenever
\* the ledger's isOverBudget(estimatedCost) is true.
C10_WarningFollowsLedger ==
    (call.op = "fillBooking" /\ pc = "idle" /\ result.msg = "formFilled"
        /\ isOverBudget(budget, result.estimatedCost))
        => result.budgetWarning

\* C11, as claimed: a fillBooking whose booking control was clicked, and that
\* did not end in an exception, has returned success and has recorded
\* bookingFilled = true for its expert, whatever the cost and the cap.
C11_FillNeverBlocked ==
    (call.op = "fillBooking" /\ pc = "idle" /\ result.kind # "exception"
        /\ page = PageOf("form", call.user))
        => /\ result.kind = "success"
           /\ Booking(session) = [bookingFilled |-> TRUE, currentExpert |-> call.user]

\* C12: a successful fillBooking reports estimatedCost = duration *
\* costPerMinute, with the duration given (15..120) or else 30.
C12_EstimatedCostExact ==
    (call.op = "fillBooking" /\ pc = "idle" /\ result.msg = "formFilled")
        => /\ result.estimatedCost = result.duration * result.costPerMinute
           /\ result.duration \in (Durations \ {0}) \cup {DefaultDuration}
           /\ result.duration >= 15 /\ result.duration <= 120

\* a booking of two hours at a listed rate was filled
C12_Witness ==
    /\ call.op = "fillBooking"
    /\ pc = "idle"
    /\ result.msg = "formFilled"
    /\ result.duration = 120
    /\ result.costPerMinute = 250
    /\ result.estimatedCost = 30000

----------------------------------------------------------------------------
(* Properties of the records the read operations return *)

\* a search has returned its records
SearchDone == call.op = "searchExperts" /\ pc = "idle" /\ result.kind = "success"

\* the records of the last return value
Returned ==
    IF SearchDone THEN {result.experts[i] : i \in DOMAIN result.experts}
    ELSE IF call.op = "viewProfile" /\ result.kind = "success" THEN {result.profile}
    ELSE IF call.op = "compareExperts" /\ result.kind = "success"
    THEN {result.profiles[i] : i \in DOMAIN result.profiles} \cup {result.bestValue}
    ELSE {}

\* C13: when a search is given both minRate and maxRate (0 included), every
\* record it returns has minRate <= rate <= maxRate.
C13_RecordsWithinBothBounds ==
    (SearchDone /\ call.in.minRate # Null /\ call.in.maxRate # Null)
        => \A e \in Returned : call.in.minRate <= e.rate /\ e.rate <= call.in.maxRate

\* C14: a search returns min(limit, number of cards in the rate range)
\* records: a card out of range does not use up the limit.
C14_FilterBeforeLimit ==
    (SearchDone /\ call.in.enrich = Null)
        => LET cards == call.in.cards
               inRange == {i \in DOMAIN cards :
                             passesRateFilter(cardRate(cards[i].strong),
                                              call.in.minRate, call.in.maxRate)}
               lim == IF call.in.limit = Null THEN DefaultLimit ELSE call.in.limit
           IN  Len(result.experts) = Min(lim, Cardinality(inRange))

\* C15: a search returns at most min(limit, 20) records, limit being 10 when
\* not given, and totalResults is the length of the list.
C15_AtMostLimitRecords ==
    SearchDone
        => LET lim == IF call.in.limit = Null THEN 10 ELSE call.in.limit
           IN  /\ Len(result.experts) <= lim
               /\ Len(result.experts) <= 20
               /\ result.totalResults = Len(result.experts)

\* a page of more cards than the default limit was searched without --limit
C15_Witness ==
    /\ SearchDone
    /\ call.in.limit = Null
    /\ Len(call.in.cards) > DefaultLimit
    /\ Len(result.experts) = DefaultLimit

\* C16: a search without enrichment (enrich absent or 0) returns records
\* whose rating, reviewCount and valueScore are all absent, also at rate 0,
\* in the order of the page's cards.
C16_UnenrichedRecordsBlank ==
    (SearchDone /\ call.in.enrich \in {Null, 0})
        => /\ \A e \in Returned :
                e.rating = Null /\ e.reviewCount = Null /\ e.valueScore = Null
           /\ \A i, j \in DOMAIN result.experts :
                i < j => result.experts[i].username < result.experts[j].username

\* an unenriched search returned a card without a rate after another card
C16_Witness ==
    /\ SearchDone
    /\ call.in.enrich = Null
    /\ \E i \in DOMAIN result.experts : i > 1 /\ result.experts[i].rate = 0

\* C17: the valueScore of every returned record is absent exactly when its
\* rating or reviewCount is absent, 0 at a rate <= 0, and otherwise
\* reviewCount * rating / rate rounded to hundredths (halves up).
C17_ValueScoreOfOwnFields ==
    \A e \in Returned :
        /\ (e.valueScore = Null) <=> (e.rating = Null \/ e.reviewCount = Null)
        /\ (e.valueScore # Null /\ e.rate <= 0) => e.valueScore = 0
        /\ (e.valueScore # Null /\ e.rate > 0)
              => LET n == e.reviewCount * e.rating * 1000
                     s == e.valueScore
                 IN  2 * s * e.rate - e.rate <= 2 * n /\ 2 * n < 2 * s * e.rate + e.rate

\* a search returned an enriched record with a score, one at rate 0 with
\* score 0, and one whose scrape found no rating
C17_Witness ==
    /\ SearchDone
    /\ \E e \in Returned : e.rate > 0 /\ e.rating # Null /\ e.valueScore > 0
    /\ \E e \in Returned : e.rate = 0 /\ e.rating # Null /\ e.reviewCount # Null
                                /\ e.valueScore = 0
    /\ \E e \in Returned : e.rating = Null /\ e.reviewCount # Null

\* C18: in a record of viewProfile or compareExperts the rating is absent or
\* in (0,5], and a page without rating marker or review count gives an
\* absent rating / reviewCount and an absent valueScore, never 0.
C18_AbsentNeverZero ==
    /\ (call.op = "viewProfile" /\ result.kind = "success")
          => LET e == result.profile
             IN  /\ e.rating = Null \/ (e.rating > 0 /\ e.rating <= 50)
                 /\ call.pg.rating = Null => (e.rating = Null /\ e.valueScore = Null)
                 /\ call.pg.reviews = Null => (e.reviewCount = Null /\ e.valueScore = Null)
    /\ (call.op = "compareExperts" /\ result.kind = "success")
          => \A i \in DOMAIN result.profiles :
                LET e == result.profiles[i]
                IN  /\ e.rating = Null \/ (e.rating > 0 /\ e.rating <= 50)
                    /\ call.pgs[i].rating = Null => (e.rating = Null /\ e.valueScore = Null)
                    /\ call.pgs[i].reviews = Null
                          => (e.reviewCount = Null /\ e.valueScore = Null)

\* C19: in enrichProfiles a record changes only when its own fetch was
\* fulfilled: a failed fetch changes neither its record nor any other.
C19_FailedFetchChangesNothing ==
    [][pc = "enrich"
         => \A idx \in DOMAIN call.enriched :
               call'.enriched[idx] # call.enriched[idx]
                   => /\ idx > call.i
                      /\ idx <= call.i + Len(call.fetch)
                      /\ call.fetch[idx - call.i].status = "fulfilled"]_vars

\* a batch with a failed and a fulfilled fetch was applied: the record of
\* the failed one is as extracted, the other has its rating
C19_Witness ==
    /\ SearchDone
    /\ \E j, k \in DOMAIN call.fetch :
          /\ call.fetch[j].status = "rejected"
          /\ call.enriched[call.i + j] = call.extracted[call.i + j]
          /\ call.fetch[k].status = "fulfilled"
          /\ call.enriched[call.i + k].rating # Null
          /\ call.enriched[call.i + k] # call.extracted[call.i + k]

\* C20: after a search with enrichment the records with a score come first,
\* in non-increasing score order, and the records without score keep the
\* order they had before the sort (the page's).
C20_SortedByScore ==
    (SearchDone /\ call.in.enrich # Null /\ call.in.enrich > 0)
        => \A i, j \in DOMAIN result.experts :
              i < j => LET a == result.experts[i]
                           b == result.experts[j]
                       IN  /\ a.valueScore = Null => b.valueScore = Null
                           /\ (a.valueScore # Null /\ b.valueScore # Null)
                                 => a.valueScore >= b.valueScore
                           /\ (a.valueScore = Null /\ b.valueScore = Null)
                                 => a.username < b.username

\* the sort moved the second and third card in front of the first, whose
\* fetch failed, and left the two records without score in page order
C20_Witness ==
    /\ SearchDone
    /\ call.in.enrich = MaxEnrich
    /\ Len(result.experts) = 4
    /\ [i \in 1..4 |-> result.experts[i].username] = <<2, 3, 1, 4>>
    /\ result.experts[1].valueScore > result.experts[2].valueScore
    /\ result.experts[3].valueScore = Null

\* C21: enrichment with --enrich N fetches profiles for the first N
\* extracted records only: no fetch (and so no tab) belongs to a record at
\* a later index, and such a record is returned with rating, reviewCount
\* and valueScore absent.
C21_EnrichOnlyFirstN ==
    /\ pc = "enrich"
          => /\ Len(call.enriched) = Min(call.in.enrich, Len(call.extracted))
             /\ \A j \in DOMAIN call.fetch :
                   call.i + j <= call.in.enrich /\ call.i + j <= Len(call.extracted)
    /\ (SearchDone /\ call.in.enrich # Null /\ call.in.enrich > 0)
          => \A e \in Returned :
                (\E idx \in DOMAIN call.extracted :
                    idx > call.in.enrich /\ call.extracted[idx].username = e.username)
                    => e.rating = Null /\ e.reviewCount = Null /\ e.valueScore = Null

\* --enrich 2 on a page of four cards: both fetches found a rating, the
\* third and fourth record are returned without
C21_Witness ==
    /\ SearchDone
    /\ call.in.enrich = 2
    /\ Len(call.extracted) = 4
    /\ \A i \in 1..4 : (result.experts[i].rating # Null) <=> (result.experts[i].username <= 2)

----------------------------------------------------------------------------
(* Properties of query resolution *)

\* a query has been resolved
Resolved == call.op = "queryToBrowseUrl" /\ result.kind = "success"

\* the entries of CATEGORY_MAP whose key is a substring of q
Matching(q) == {k \in DOMAIN CATEGORY_MAP : includes(q, CATEGORY_MAP[k].key)}

\* C22: every query resolves to a browse URL; a normalized query that equals
\* a key resolves to that key's category; and the result is the unfiltered
\* /browse exactly when the normalized query is no key and contains none.
C22_ResolutionTotalExactFirst ==
    Resolved
        => LET q == trim(toLowerCase(call.query))
               isKey == \E k \in DOMAIN CATEGORY_MAP : CATEGORY_MAP[k].key = q
           IN  /\ Len(result.url) \in {2, 3}
               /\ result.url[1] = "https://clarity.fm" /\ result.url[2] = "browse"
               /\ \A k \in DOMAIN CATEGORY_MAP :
                     CATEGORY_MAP[k].key = q
                         => result.url = <<"https://clarity.fm", "browse", CATEGORY_MAP[k].path>>
               /\ (Len(result.url) = 2) <=> (~isKey /\ Matching(q) = {})

\* C23: a normalized query that is no key but contains keys resolves to the
\* category of a longest key it contains.
C23_LongestKeyWins ==
    Resolved
        => LET q == trim(toLowerCase(call.query))
               isKey == \E k \in DOMAIN CATEGORY_MAP : CATEGORY_MAP[k].key = q
           IN  (~isKey /\ Matching(q) # {})
                  => \E k \in Matching(q) :
                        /\ result.url = <<"https://clarity.fm", "browse", CATEGORY_MAP[k].path>>
                        /\ \A m \in Matching(q) :
                              Len(CATEGORY_MAP[m].key) <= Len(CATEGORY_MAP[k].key)

----------------------------------------------------------------------------
(* Properties of the session and of the results *)

\* C25: after a fresh launch a SessionRecord exists, written by that launch
\* with loggedIn = false and bookingFilled = false.
C25_LaunchWritesRecord ==
    call.launched
        => /\ session # NoSession
           /\ call.op \in {"takeScreenshot", "searchExperts", "viewProfile", "compareExperts"}
                 => (~session.loggedIn /\ ~session.bookingFilled)

\* C27: after a successful reset the browser that was recorded is closed and
\* no SessionRecord exists, so that submitBooking is refused.
C27_ResetClosesBrowser ==
    [][Reset => /\ session' = NoSession
                /\ resident' = "dead"
                /\ orphans' = orphans
                /\ SubmitRefused(session')]_vars

\* C28: a result with error = true carries a screenshot path.
C28_ErrorsCarryScreenshot == result.kind = "error" => result.screenshot

\* C29: fillBooking and listCalls run the login flow at most once; they skip
\* it only on a reconnected browser whose record says loggedIn; a failed
\* login ends the operation after that one attempt.
C29_LoginAtMostOnce ==
    call.op \in {"fillBooking", "listCalls"}
        => /\ call.logins <= 1
           /\ (call.touched /\ call.logins = 0)
                 => (call.pre # NoSession /\ call.pre.loggedIn /\ ~call.launched)
           /\ result.msg = "loginFailed" => (call.logins = 1 /\ pc = "idle")

\* the record said loggedIn, the dashboard check failed, and the one login
\* that followed failed: the operation ended
C29_Witness ==
    /\ call.op = "listCalls"
    /\ call.pre # NoSession
    /\ call.pre.loggedIn
    /\ ~call.launched
    /\ call.logins = 1
    /\ result.msg = "loginFailed"

----------------------------------------------------------------------------
(* Properties of session acquisition *)

\* the recorded endpoint cannot be reconnected, or the file does not parse
BadRecord == session # NoSession /\ (session = Corrupt \/ resident = "dead")

\* a step of the environment
EnvStep == ResidentDies \/ OrphanDies \/ TabsClosed \/ RecordCorrupted

\* a command other than reset starts and gets as far as ensureBrowser
Acquires ==
    /\ pc = "idle"
    /\ ~EnvStep
    /\ ~Reset
    /\ result'.msg # "noBookingFilled"
    /\ result'.msg # "compareArity"

\* C24: a command that finds a record it cannot reconnect to, or cannot
\* parse, does not fail for that: the stale record is deleted and a launch
\* follows; the command raises only if that launch itself throws.
C24_BadRecordNeverFatal ==
    [][(BadRecord /\ Acquires)
          => /\ session' # Corrupt
             /\ \/ call'.launched /\ session' = IF call'.logins = 1 /\ result'.msg # "loginFailed"
                                                 THEN [NewSession EXCEPT !.loggedIn = TRUE]
                                                 ELSE NewSession
                \/ result'.msg = "launch" /\ session' = NoSession]_vars

\* a screenshot was taken in a browser launched in place of the one an
\* unparseable record pointed to
C24_Witness ==
    /\ call.op = "takeScreenshot"
    /\ call.pre = Corrupt
    /\ call.launched
    /\ result.kind = "success"
    /\ session = NewSession

\* C26 as stated: no command other than reset leaves a state without
\* SessionRecord when there was one before it.
C26_OnlyResetDeletes ==
    [][(session # NoSession /\ ~Reset) => session' # NoSession]_vars

\* C26: a SessionRecord that exists before a command still exists after it,
\* unless the command is reset, or the command could not reconnect to (or
\* parse) the record, deleted it, and its launch threw.
C26_OnlyResetOrFailedRelaunchDeletes ==
    [][(session # NoSession /\ session' = NoSession)
          => \/ Reset
             \/ BadRecord /\ Acquires /\ result'.msg = "launch"]_vars

\* the recorded browser was gone, the record was deleted, the launch threw
C26_Witness ==
    /\ call.op = "viewProfile"
    /\ call.pre # NoSession
    /\ call.pre # Corrupt
    /\ result.msg = "launch"
    /\ session = NoSession

----------------------------------------------------------------------------
(* Properties of the ledger file *)

\* how many times entry e occurs in a ledger
Occurrences(e, entries) == Cardinality({ i \in 1..Len(entries) : entries[i] = e })

\* C30: entries are append-only in the file: whatever BudgetTracker object
\* calls addEntry or setBudget, and whenever it was constructed, every entry
\* the file held before the call is in the file after it, with the same fields.
C30_PersistedEntriesStay ==
    [][\A i \in 1..Len(load(budget).entries) :
          Occurrences(load(budget).entries[i], load(budget').entries)
              >= Occurrences(load(budget).entries[i], load(budget).entries)]_vars

----------------------------------------------------------------------------
(* Properties of the state files *)

\* C31: a session file that is missing or does not parse makes no command
\* fail: no command ends with the exception of a JSON.parse on it.
C31_NoCommandFailsOnBadFile == result.msg # "sessionParse"

----------------------------------------------------------------------------
(* Properties of the read commands *)

ReadOps == {"searchExperts", "viewProfile", "compareExperts", "listCalls", "takeScreenshot"}

\* a read command runs, from its start to its result
ReadStep == pc = "idle" /\ ~EnvStep /\ call'.op \in ReadOps

\* C32 as stated: a read command leaves bookingFilled and currentExpert of
\* the record as they were, whatever the state it started in.
C32_ReadsKeepBooking ==
    [][ReadStep => Booking(session') = Booking(session)]_vars

\* C32: a read command leaves bookingFilled and currentExpert as they were
\* when it reuses the recorded browser; when it launched (record stale or
\* unparseable, or browser without a tab), or deleted a stale or unparseable
\* record before a launch that threw, nothing is filled afterwards.
C32_ReadsKeepBookingUnlessRelaunch ==
    [][ReadStep =>
          Booking(session') =
              IF call'.launched \/ (BadRecord /\ result'.msg = "launch")
              THEN Booking(NoSession)
              ELSE Booking(session)]_vars

\* the calls were listed, with a login, while a booking was filled, and
\* the booking is still filled
C32_Witness ==
    /\ call.op = "listCalls"
    /\ call.logins = 1
    /\ ~call.launched
    /\ result.kind = "success"
    /\ call.pre # NoSession
    /\ call.pre.bookingFilled
    /\ session.bookingFilled
    /\ session.currentExpert = call.pre.currentExpert

----------------------------------------------------------------------------
(* Properties of compareExperts *)

\* compareExperts has returned or raised
Compared == call.op = "compareExperts" /\ pc = "idle"

----------------------------------------------------------------------------
(* Properties of enrichProfiles *)

\* a search that enriches is running or has returned
Enriching == call.op = "searchExperts" /\ "log" \in DOMAIN call /\ call.log # <<>>

\* the search has returned after enriching
Enriched == Enriching /\ pc = "idle" /\ result.kind = "success"

\* the batch of record idx (1-based)
BatchOf(idx) == (idx - 1) \div 3

\* the fetch of a record ended without a scrape
Failed(l) == "fails" \in DOMAIN l

Settled(l) == l # NotStarted /\ l # Started

\* C34: at most 3 profile tabs are open at any moment, and no fetch of a
\* later batch has started while a fetch of an earlier batch is unsettled.
C34_ThreeTabsBatchByBatch ==
    Enriching =>
        /\ call.openTabs <= 3
        /\ \A a, b \in DOMAIN call.log :
              (BatchOf(b) > BatchOf(a) /\ call.log[b] # NotStarted) => Settled(call.log[a])

\* three tabs are open at once and a fourth record waits for the next batch
C34_Witness ==
    /\ Enriching
    /\ pc = "enrich"
    /\ call.openTabs = 3
    /\ Len(call.log) = 4
    /\ call.log[4] = NotStarted

\* C35: the tab of a fetch is closed by the time the fetch settles, after a
\* scrape as after a failure: the open tabs are those of the unsettled
\* fetches of the running batch, and none is open once the search returned.
C35_TabsClosedWhenSettled ==
    Enriching =>
        /\ call.openTabs = Cardinality({ j \in DOMAIN call.fetch :
                                            call.fetch[j].status = "open" })
        /\ pc = "idle" => call.openTabs = 0

\* the search returned after a fetch that failed in its tab and a fetch
\* that scraped its page
C35_Witness ==
    /\ Enriched
    /\ call.openTabs = 0
    /\ \E a, b \in DOMAIN call.log :
          /\ call.log[a] = FetchFails
          /\ ~Failed(call.log[b])

\* the records after enrichment, before the re-sort
Merged ==
    call.enriched \o SubSeq(call.extracted, Len(call.enriched) + 1, Len(call.extracted))

\* C36: after enrichment record idx has the username and rate it had, the
\* rating and review count scraped from the page its own fetch showed (or
\* its old figures when that fetch failed), and the result is a permutation
\* of these records.
C36_MergedByIndex ==
    Enriched =>
        /\ \A idx \in DOMAIN call.enriched :
              /\ call.enriched[idx].username = call.extracted[idx].username
              /\ call.enriched[idx].rate = call.extracted[idx].rate
              /\ IF Failed(call.log[idx])
                 THEN call.enriched[idx] = call.extracted[idx]
                 ELSE /\ call.enriched[idx].rating = scrapeProfile(call.log[idx]).rating
                      /\ call.enriched[idx].reviewCount
                            = scrapeProfile(call.log[idx]).reviewCount
        /\ Len(result.experts) = Len(call.extracted)
        /\ \A k \in DOMAIN Merged :
              Occurrences(Merged[k], result.experts) = Occurrences(Merged[k], Merged)

\* two records of one batch got different ratings, the second a failed
\* fetch, and the re-sort changed the order
C36_Witness ==
    /\ Enriched
    /\ Len(call.enriched) >= 3
    /\ call.log[1] = [rating |-> Null, reviews |-> Null]
    /\ Failed(call.log[2])
    /\ call.log[3] = [rating |-> 45, reviews |-> 10]
    /\ call.enriched[3].rating = 45
    /\ call.enriched[1].rating = Null
    /\ result.experts[1].username = call.extracted[3].username

\* C37: the enriched count is at most min(N, number of results) and is the
\* number of records whose fetch succeeded: a failed fetch is not counted,
\* a successful one is.
C37_CountsSuccessfulFetches ==
    Enriched =>
        /\ result.enriched <= Min(call.in.enrich, Len(call.extracted))
        /\ result.enriched = Cardinality({ idx \in DOMAIN call.log : ~Failed(call.log[idx]) })

----------------------------------------------------------------------------
(* Properties of login *)

\* list-calls has ended after a login that got as far as the two waits
LoginDone == call.op = "listCalls" /\ pc = "idle" /\ "race" \in DOMAIN call
                /\ call.race # "none"

\* C38: a login succeeds whenever one of its two waits resolved, and fails
\* only when neither did; after a success the record has loggedIn = true,
\* after a failure the record is as login() found it.
C38_LoginSucceedsIfEitherResolves ==
    LoginDone =>
        IF call.urlWait = "resolved" \/ call.selWait = "resolved"
        THEN /\ result.msg \in {"calls", "navigation"}
             /\ session # NoSession
             /\ session.loggedIn
        ELSE /\ result.kind = "exception"
             /\ session = call.atLogin

----------------------------------------------------------------------------
(* Properties of the selector loops *)

\* C39: one submitBooking call, and one fillBooking call, calls click() on
\* at most one control: the first control clicked ends the loop over the
\* selectors.
C39_AtMostOneClick ==
    call.op \in {"submitBooking", "fillBooking"} => call.clicks <= 1

----------------------------------------------------------------------------
(* Properties of the two flags of the record *)

LoggedIn(s) == s # NoSession /\ s.loggedIn

\* a command starts and has to launch a browser
LaunchStep == pc = "idle" /\ ~EnvStep /\ call'.launched

\* C40: a record with bookingFilled has loggedIn; loggedIn is on only in a
\* record for which a login succeeded since it was written; a launch
\* leaves a record with nothing filled, logged in only by a login of the
\* same command.
C40_FilledImpliesLoggedIn ==
    /\ []((session # NoSession /\ session.bookingFilled) => session.loggedIn)
    /\ [][/\ (LoggedIn(session') /\ (~LoggedIn(session) \/ LaunchStep))
                 => (call'.logins = 1 /\ result'.msg # "loginFailed")
           /\ (LaunchStep => Booking(session') = Booking(NoSession))]_vars

\* a booking was filled in a browser the same command launched and logged in
C40_Witness ==
    /\ call.op = "fillBooking"
    /\ pc = "idle"
    /\ call.launched
    /\ call.logins = 1
    /\ session # NoSession
    /\ session.bookingFilled
    /\ session.loggedIn

====
